---------------------------- MODULE Spec2Model ----------------------------
(***************************************************************************)
(* A model of the featbit python server SDK (package fbclient):            *)
(*   - InMemoryDataStorage            (fbclient/data_storage.py)           *)
(*   - DataUpdateStatusProviderImpl   (fbclient/status.py)                 *)
(*   - DefaultEventProcessor, EventDispatcher, FlushPayloadRunner          *)
(*                                    (fbclient/event_processor.py)        *)
(*   - Streaming                      (fbclient/streaming.py)              *)
(*   - NoticeBroadcater               (fbclient/notice_broadcaster.py)     *)
(*   - ReadWriteLock                  (fbclient/utils/rwlock.py)           *)
(*   - BackoffAndJitterStrategy                                            *)
(*               (fbclient/utils/exponential_backoff_jitter_strategy.py)   *)
(*   - FBClient                       (fbclient/client.py)                 *)
(* Each component has its own specification (SpecStore, SpecStatus,        *)
(* SpecEvents, ...); the variables of the other components stay as         *)
(* constructed.                                                            *)
(***************************************************************************)
EXTENDS Integers, Sequences, FiniteSets, TLC

(***************************************************************************)
(* Bounds of the model.                                                    *)
(***************************************************************************)
\* versions and entity timestamps range over 0..MaxVersion / 1..MaxVersion
MaxVersion == 2

\* the clock of the status provider runs over 0..MaxTime (ticks of 0.001 s)
MaxTime == 3

\* a positive timeout of wait_for_OKState is one of 1..MaxTimeout ticks
MaxTimeout == 2

\* config.events_max_in_queue, the capacity of the inbox
InboxCapacity == 2

\* the number of events the application builds
MaxEvents == 2

\* the scale of the hash: |magic_num| ranges over 0..MaxBucket as it ranges over 0..2^31
\* in the code, and a bound b of a rollout interval stands for the percentage b / MaxBucket
MaxBucket == 2

\* the number of send_event calls where the flush workers are exercised
MaxFlushEvents == 7

\* the number of calls of FBClient.stop
MaxStops == 2

\* the retries after which BackoffAndJitterStrategy's 2 ** retry_times is too large for
\* a float (1024 in the program)
MaxRetryTimes == 2

\* the seconds of time() the reconnections are followed for
MaxClock == 100

\* the number of listener registrations
MaxRegistrations == 3

\* the number of calls of remove_listener
MaxRemovals == 1

\* the number of notices broadcast
MaxNotices == 2

\* the number of calls the concurrent callers of the store issue
MaxRWCalls == 4

(***************************************************************************)
(* InMemoryDataStorage: values.                                            *)
(***************************************************************************)
Max(a, b) == IF a >= b THEN a ELSE b

\* the categories the update processor writes (category.py)
Cats == {"featureFlags", "segments"}

\* the keys used in each category
KeysOf(kind) == IF kind = "featureFlags" THEN {"f1", "f2"} ELSE {"s1"}

\* kind = None
NoneKind == "None"

\* key = None or ''
NoKey == ""

\* a stored entity carries the two store-level fields
Entities == [timestamp : 1..MaxVersion, isArchived : BOOLEAN]

\* absence of an entity: dict.get(key, None) is None; an item argument None / {}
NoItem == [absent |-> TRUE]

\* the content of one category: key -> entity, NoItem where the key is absent
KeyItems(kind) == [KeysOf(kind) -> Entities \cup {NoItem}]

\* defaultdict(dict): every category reads as an empty dict until written
EmptyStorage == [c \in Cats |-> [k \in KeysOf(c) |-> NoItem]]

\* a version argument: an int, or something that is not an int (None)
IntVersions == {[isInt |-> TRUE, val |-> n] : n \in 0..MaxVersion}

NotInt == [isInt |-> FALSE, val |-> 0]

VersionArgs == IntVersions \cup {NotInt}

\* a payload whose entities all carry timestamp t
PayloadItems(t) == {NoItem} \cup {[timestamp |-> t, isArchived |-> a] : a \in BOOLEAN}

Payloads(t) == {[c \in Cats |-> IF c = "featureFlags" THEN ff ELSE seg] :
                  ff \in [KeysOf("featureFlags") -> PayloadItems(t)],
                  seg \in [KeysOf("segments") -> PayloadItems(t)]}

\* the arguments of init: all_data is None / {} (falsy) or a mapping category -> key ->
\* entity; the version need not be the timestamp of the payload's entities
AllPayloads == UNION {Payloads(t) : t \in 1..MaxVersion}

InitArgs ==
  {[all_data |-> [null |-> TRUE, items |-> EmptyStorage], version |-> v] : v \in VersionArgs}
    \cup {[all_data |-> [null |-> FALSE, items |-> d], version |-> v] :
            d \in AllPayloads, v \in VersionArgs}

\* the arguments of upsert: every key, entity and int version (the entity's timestamp need
\* not be the version), and each of these with one argument missing
ValidUpserts ==
  UNION {[kind : {c}, key : KeysOf(c), item : Entities, version : IntVersions] : c \in Cats}

Live(t) == [timestamp |-> t, isArchived |-> FALSE]

UpsertArgs ==
  ValidUpserts
    \cup {[a EXCEPT !.kind = NoneKind] : a \in {x \in ValidUpserts : x.item = Live(1)}}
    \cup {[a EXCEPT !.key = NoKey] : a \in {x \in ValidUpserts : x.item = Live(1)}}
    \cup {[a EXCEPT !.item = NoItem] : a \in ValidUpserts}
    \cup {[a EXCEPT !.version = NotInt] : a \in ValidUpserts}

VARIABLES
  storage,        \* InMemoryDataStorage.__storage
  version,        \* InMemoryDataStorage.__version
  initialized,    \* InMemoryDataStorage.__initialized
  req,            \* the call a client of the store has issued, NoCall between calls
  done,           \* the call has run and has not returned yet
  res,            \* the value the call returns, for a read that has run
  maxAccepted,    \* history: the largest version of the writes applied so far, 0 if none
  everApplied     \* history: some init or upsert was applied

storeVars == <<storage, version, initialized, req, done, res, maxAccepted, everApplied>>

VARIABLES
  current_state,  \* DataUpdateStatusProviderImpl.__current_state
  now,            \* time()
  waiter,         \* the position of each thread that calls wait_for_OKState
  everOK          \* history: the state type has been OK

statusVars == <<current_state, now, waiter, everOK>>

VARIABLES
  ep_closed,      \* DefaultEventProcessor.__closed
  task_stopped,   \* the flush task's RepeatableTask._stop
  inbox,          \* DefaultEventProcessor.__inbox
  stop_pc,        \* the position of the thread that calls DefaultEventProcessor.stop
  msgs,           \* EventDispatcher.run: the messages drained and not yet processed
  d_pc,           \* EventDispatcher.run: the position of the dispatcher thread
  d_closed,       \* EventDispatcher.__closed
  buffer,         \* EventDispatcher.__events_buffer_to_next_flush
  permits,        \* EventDispatcher.__permits
  runners,        \* the payloads of the FlushPayloadRunners submitted and not finished
  posted,         \* the payloads passed to Sender.postJson, in the order of the calls
  sender_stopped, \* Sender.stop was called
  sender_stop_raised, \* Sender.stop raised an exception
  late_calls,     \* history: the methods called after stop() has returned
  full_puts,      \* history: the types of the messages whose put_nowait() has failed
  retained,       \* history: the events a FLUSH has left in the buffer, no worker free
  next_id,        \* the number of events built so far
  sent_events     \* history: the events send_event has put in the inbox

eventVars == <<ep_closed, task_stopped, inbox, stop_pc, msgs, d_pc, d_closed, buffer,
               permits, runners, posted, sender_stopped, sender_stop_raised, late_calls,
               full_puts, retained, next_id, sent_events>>

VARIABLES
  pcall           \* the call of DataUpdateStatusProviderImpl.init / upsert in progress

providerVars == <<pcall>>

VARIABLES
  ev              \* the call of Evaluator.evaluate in progress: its arguments and result

evalVars == <<ev>>

VARIABLES
  vcall           \* the call of FBClient.variation / variation_detail in progress

clientVars == <<vcall>>

VARIABLES
  cs_pc,          \* the position of the thread that calls FBClient.stop
  cs_calls,       \* the number of calls of FBClient.stop so far
  force_close,    \* Streaming.__force_close
  running,        \* Streaming.__running
  wsapp,          \* Streaming.__wsapp: none, or a WebSocketApp, open or told to close
  self_closed,    \* Streaming.__self_closed
  s_pc,           \* Streaming.run: the position of the streaming thread
  ping_stopped,   \* the ping task's RepeatableTask._stop
  b_closed,       \* NoticeBroadcater.__closed
  b_pc            \* NoticeBroadcater.__run: the position of the broadcaster thread

stopVars == <<cs_pc, cs_calls, force_close, running, wsapp, self_closed, s_pc, ping_stopped,
              b_closed, b_pc>>

VARIABLES
  closed_by_error, \* Streaming.__closed_by_error
  ready,          \* Streaming.__ready: the Event is set
  retry_times,    \* BackoffAndJitterStrategy.__retry_times
  close_code,     \* the status of the close() that ended the connection, 0 while none did
  last_msg,       \* history: the last message or error of the connection, none so far
  ready_sets      \* history: the number of calls of ready.set() in _on_process_data

streamVars == <<closed_by_error, ready, retry_times, close_code, last_msg, ready_sets>>

VARIABLES
  listener_types, \* NoticeBroadcater.__listeners: the notice types that are keys
  listeners,      \* NoticeBroadcater.__listeners: the list of each notice type
  notice_queue,   \* NoticeBroadcater.__notice_queue
  broadcasts,     \* history: the notices passed to broadcast, in the order of the calls
  calls,          \* history: the calls of listeners, in the order they were made
  removals        \* the number of calls of remove_listener so far

noticeVars == <<listener_types, listeners, notice_queue, broadcasts, calls, removals>>

VARIABLES
  o_pc,           \* FBClient.__init__ has not run (new) or has returned (started)
  is_offline,     \* Config.is_offline
  o_call          \* the call of FBClient.initialize_from_external_json in progress

offVars == <<o_pc, is_offline, o_call>>

VARIABLES
  rw_pc,          \* the line each concurrent caller of the store has reached
  rw_call,        \* the call each concurrent caller of the store is in
  rw_calls,       \* the number of calls issued by the concurrent callers
  readers,        \* ReadWriteLock._readers
  read_ready,     \* ReadWriteLock._read_ready: the thread that holds the condition's lock
  readers_seen    \* history: the most readers that were inside the read lock together

rwVars == <<rw_pc, rw_call, rw_calls, readers, read_ready, readers_seen>>

VARIABLES
  patch           \* history: the last patch processed and the upsert calls made for it

patchVars == <<patch>>

VARIABLES
  strategy,       \* the BackoffAndJitterStrategy of the streaming thread
  bk_pc,          \* the position of the streaming thread between connection and delay
  bk_now,         \* time(), in seconds
  opened_at,      \* history: when the connection of this attempt opened, 0 if it has not
  delay           \* history: the last call of next_delay

backoffVars == <<strategy, bk_pc, bk_now, opened_at, delay>>

laterVars == <<noticeVars, offVars, rwVars, patchVars, backoffVars>>

extVars == <<streamVars, laterVars>>

vars == <<storeVars, statusVars, eventVars, providerVars, evalVars, clientVars, stopVars, extVars>>

\* what a step of one component leaves alone
StoreFrame == UNCHANGED <<statusVars, eventVars, providerVars, evalVars, clientVars, stopVars, extVars>>

StatusFrame == UNCHANGED <<storeVars, eventVars, providerVars, evalVars, clientVars, stopVars, extVars>>

EventFrame == UNCHANGED <<storeVars, statusVars, providerVars, evalVars, clientVars, stopVars, extVars>>

EvalFrame == UNCHANGED <<storeVars, statusVars, eventVars, providerVars, clientVars, stopVars, extVars>>

ClientFrame == UNCHANGED <<storeVars, statusVars, providerVars, evalVars, stopVars, extVars>>

StopFrame == UNCHANGED <<storeVars, providerVars, evalVars, clientVars, extVars>>

\* what a step of the streaming thread leaves alone, the store and the pipeline apart
StreamFrame == UNCHANGED <<providerVars, evalVars, clientVars, laterVars>>

\* what _on_message leaves alone, the record of its calls apart
MessageFrame ==
  UNCHANGED <<providerVars, evalVars, clientVars, noticeVars, offVars, rwVars, backoffVars>>

NoticeFrame ==
  UNCHANGED <<storeVars, statusVars, eventVars, providerVars, evalVars, clientVars, stopVars,
              streamVars, offVars, rwVars, patchVars, backoffVars>>

OfflineFrame ==
  UNCHANGED <<eventVars, providerVars, evalVars, clientVars, stopVars, noticeVars, rwVars,
              patchVars, backoffVars>>

NoCall == [op |-> "none"]

NoRes == [none |-> TRUE]

(***************************************************************************)
(* InMemoryDataStorage: the readers.                                       *)
(***************************************************************************)
\* variant: get() that returns whatever is stored
GetStored(kind, key) == storage[kind][key]

\* get(): the stored item, None (NoItem) when it is absent or archived
Get(kind, key) ==
  LET item == storage[kind][key]
  IN  IF item = NoItem \/ item.isArchived THEN NoItem ELSE item

\* get_all(): the non-archived entities of kind, as the set of its (key, item) pairs
GetAll(kind) ==
  {<<k, storage[kind][k]>> : k \in {x \in KeysOf(kind) :
       storage[kind][x] # NoItem /\ ~storage[kind][x].isArchived}}

(***************************************************************************)
(* InMemoryDataStorage: the writers.                                       *)
(***************************************************************************)
\* variant: init() that lets a version equal to the latest one through
InitRejectsOnLower(all_data, ver) ==
  all_data.null \/ ~ver.isInt \/ ver.val < version

\* init(): the early return of line 38
InitRejects(all_data, ver) ==
  all_data.null \/ ~ver.isInt \/ ver.val <= version

\* variant: init() without storage.clear(): the payload is merged into the old content
InitStorageMerged(all_data) ==
  [c \in Cats |-> [k \in KeysOf(c) |->
     IF all_data.items[c][k] # NoItem THEN all_data.items[c][k] ELSE storage[c][k]]]

\* init(): storage.clear(); storage.update(all_data)
InitStorage(all_data) == [c \in Cats |-> all_data.items[c]]

\* variant: upsert() without the test against the store's latest version
UpsertRejectsMissingOnly(kind, key, item, ver) ==
  kind = NoneKind \/ item = NoItem \/ key = NoKey \/ ~ver.isInt

\* upsert(): the early return of line 50
UpsertRejects(kind, key, item, ver) ==
  kind = NoneKind \/ item = NoItem \/ key = NoKey \/ ~ver.isInt \/ ver.val <= version

\* variant: upsert() that overwrites an entity whose timestamp equals the version
UpsertAppliesOnEqual(kind, key, ver) ==
  LET v == storage[kind][key]
  IN  v = NoItem \/ v.timestamp <= ver.val

\* upsert(): the test of line 56 on the entity stored under key
UpsertApplies(kind, key, ver) ==
  LET v == storage[kind][key]
  IN  v = NoItem \/ v.timestamp < ver.val

\* variant: upsert() that leaves the initialized flag alone
InitializedNotSetByUpsert == FALSE

\* upsert(): lines 59-60
InitializedAfterUpsert == TRUE

(***************************************************************************)
(* The calls of a client of the store, one after another: a call is issued *)
(* (req), runs as one step under the store's lock (done), and returns.     *)
(***************************************************************************)
Call(r) ==
  /\ req = NoCall
  /\ req' = r
  /\ UNCHANGED <<storage, version, initialized, done, res, maxAccepted, everApplied>>
  /\ StoreFrame

\* InMemoryDataStorage.init
DoInit ==
  /\ req.op = "init" /\ ~done
  /\ IF InitRejects(req.all_data, req.version)
       THEN UNCHANGED <<storage, version, initialized, maxAccepted, everApplied>>
       ELSE /\ storage' = InitStorage(req.all_data)
            /\ initialized' = TRUE
            /\ version' = req.version.val
            /\ maxAccepted' = Max(maxAccepted, req.version.val)
            /\ everApplied' = TRUE
  /\ done' = TRUE
  /\ UNCHANGED <<req, res>>
  /\ StoreFrame

\* InMemoryDataStorage.upsert
DoUpsert ==
  /\ req.op = "upsert" /\ ~done
  /\ IF UpsertRejects(req.kind, req.key, req.item, req.version)
       THEN UNCHANGED <<storage, version, initialized, maxAccepted, everApplied>>
       ELSE IF UpsertApplies(req.kind, req.key, req.version)
              THEN /\ storage' = [storage EXCEPT ![req.kind][req.key] = req.item]
                   /\ version' = req.version.val
                   /\ initialized' = (initialized \/ InitializedAfterUpsert)
                   /\ maxAccepted' = Max(maxAccepted, req.version.val)
                   /\ everApplied' = TRUE
              ELSE UNCHANGED <<storage, version, initialized, maxAccepted, everApplied>>
  /\ done' = TRUE
  /\ UNCHANGED <<req, res>>
  /\ StoreFrame

\* InMemoryDataStorage.get
DoGet ==
  /\ req.op = "get" /\ ~done
  /\ res' = [item |-> Get(req.kind, req.key)]
  /\ done' = TRUE
  /\ UNCHANGED <<storage, version, initialized, req, maxAccepted, everApplied>>
  /\ StoreFrame

\* InMemoryDataStorage.get_all
DoGetAll ==
  /\ req.op = "get_all" /\ ~done
  /\ res' = [items |-> GetAll(req.kind)]
  /\ done' = TRUE
  /\ UNCHANGED <<storage, version, initialized, req, maxAccepted, everApplied>>
  /\ StoreFrame

\* the call returns to the client
Return ==
  /\ done
  /\ req' = NoCall
  /\ done' = FALSE
  /\ res' = NoRes
  /\ UNCHANGED <<storage, version, initialized, maxAccepted, everApplied>>
  /\ StoreFrame

InitStore ==
  /\ storage = EmptyStorage
  /\ version = 0
  /\ initialized = FALSE
  /\ req = NoCall
  /\ done = FALSE
  /\ res = NoRes
  /\ maxAccepted = 0
  /\ everApplied = FALSE

NextStore ==
  \/ \E a \in InitArgs : Call([op |-> "init", all_data |-> a.all_data, version |-> a.version])
  \/ \E a \in UpsertArgs :
       Call([op |-> "upsert", kind |-> a.kind, key |-> a.key, item |-> a.item,
             version |-> a.version])
  \/ \E kind \in Cats : \E key \in KeysOf(kind) : Call([op |-> "get", kind |-> kind, key |-> key])
  \/ \E kind \in Cats : Call([op |-> "get_all", kind |-> kind])
  \/ DoInit
  \/ DoUpsert
  \/ DoGet
  \/ DoGetAll
  \/ Return

(***************************************************************************)
(* DataUpdateStatusProviderImpl (status.py) and State (status_types.py).   *)
(***************************************************************************)
StateTypes == {"INITIALIZING", "OK", "INTERRUPTED", "OFF"}

\* error_track = None
NoError == "None"

ErrorTypes == {"Network error", "Data Storage update error"}

\* State(state_type, state_since, error_track)
State(state_type, state_since, error_track) ==
  [state_type |-> state_type, state_since |-> state_since, error_track |-> error_track]

\* update_state(None)
NoState == [none |-> TRUE]

\* the states a caller of update_state can build at time t
NewStates(t) == {State(ty, t, e) : ty \in StateTypes, e \in ErrorTypes \cup {NoError}}

\* the threads that wait for the OK state
Waiters == {"w1", "w2"}

\* the thread that waits where one waiter is enough
FirstWaiter == {"w1"}

\* timeout = None
NoneTimeout == [isNone |-> TRUE, val |-> 0]

TimeoutArgs == {NoneTimeout} \cup {[isNone |-> FALSE, val |-> t] : t \in (-1)..MaxTimeout}

Idle == [pc |-> "idle"]

\* variant: update_state() without the special case of line 61
EffectiveTypeAsRequested(old_state_type, new_state_type) == new_state_type

\* update_state(): lines 61-62, INTERRUPTED requested while INITIALIZING
EffectiveType(old_state_type, new_state_type) ==
  IF new_state_type = "INTERRUPTED" /\ old_state_type = "INITIALIZING"
    THEN "INITIALIZING"
    ELSE new_state_type

\* a thread blocked in wait() goes back to the test of its loop (woken: history)
Notified(rec) == [rec EXCEPT !.pc = "check", !.woken = TRUE]

\* variant: notify(), which wakes one of the threads blocked in wait()
NotifyOne(ws) ==
  IF \E w \in Waiters : ws[w].pc = "waiting"
    THEN LET first == CHOOSE w \in Waiters : ws[w].pc = "waiting"
         IN  [ws EXCEPT ![first] = Notified(ws[first])]
    ELSE ws

\* update_state(), line 69: notify_all() wakes every thread blocked in wait()
NotifyAll(ws) ==
  [w \in Waiters |-> IF ws[w].pc = "waiting" THEN Notified(ws[w]) ELSE ws[w]]

\* history: the waiters' record of whether the state has been OK between their call
\* and their deadline (at any time after the call when they wait without a timeout)
NoteState(ws, state_type) ==
  [w \in Waiters |->
     IF ws[w].pc \in {"check", "waiting"} /\ state_type = "OK"
          /\ (ws[w].deadline = ws[w].called \/ now <= ws[w].deadline)
       THEN [ws[w] EXCEPT !.okWithin = TRUE]
       ELSE ws[w]]

\* variant: update_state() that stamps every state it stores with the current time
StateSinceNow(changed) == now

\* update_state(), line 66: state_since is time() if the state type changes, and the
\* state_since of the current state otherwise
StateSince(changed) == IF changed THEN now ELSE current_state.state_since

\* DataUpdateStatusProviderImpl.update_state
UpdateStateEffect(new_state) ==
  IF new_state = NoState
    THEN UNCHANGED <<current_state, waiter, everOK>>
    ELSE LET old_state_type == current_state.state_type
             new_state_type == EffectiveType(old_state_type, new_state.state_type)
             error == new_state.error_track
         IN  IF new_state_type # old_state_type \/ error # NoError
               THEN /\ current_state' =
                         State(new_state_type, StateSince(new_state_type # old_state_type),
                               error)
                    /\ waiter' = NoteState(NotifyAll(waiter), new_state_type)
                    /\ everOK' = (everOK \/ new_state_type = "OK")
               ELSE UNCHANGED <<current_state, waiter, everOK>>

\* DataUpdateStatusProviderImpl.update_state, called by an update processor
UpdateState(new_state) ==
  /\ UpdateStateEffect(new_state)
  /\ UNCHANGED now
  /\ StatusFrame

\* wait_for_OKState(): line 72
EffectiveTimeout(timeout) == IF timeout.isNone \/ timeout.val <= 0 THEN 0 ELSE timeout.val

\* wait_for_OKState(): lines 72-73, before the lock is taken
WaitCall(w, timeout) ==
  /\ waiter[w].pc = "idle"
  /\ waiter' = [waiter EXCEPT ![w] =
                  [pc |-> "check", timeout |-> timeout, called |-> now,
                   deadline |-> now + EffectiveTimeout(timeout),
                   okWithin |-> (current_state.state_type = "OK"), woken |-> FALSE]]
  /\ UNCHANGED <<current_state, now, everOK>>
  /\ StatusFrame

\* variant: the loop of wait_for_OKState() that reports an OFF state as a success
FinishesOK(state_type) == state_type \in {"OK", "OFF"}

\* wait_for_OKState(): line 76
ReturnsTrue(state_type) == state_type = "OK"

\* wait_for_OKState(): line 78
ReturnsFalse(state_type) == state_type = "OFF"

\* variant: the loop of wait_for_OKState() that gives up on an untimed wait as well
TimedOutAlways(_timeout, deadline) == now >= deadline

\* wait_for_OKState(): lines 81-86, the wait has a deadline and the deadline has passed
TimedOut(_timeout, deadline) == _timeout # 0 /\ now >= deadline

\* the thread has returned r at time at, the state type being seen (called: history,
\* the time of the call)
Returned(w, r) ==
  [pc |-> "done", timeout |-> waiter[w].timeout, called |-> waiter[w].called,
   deadline |-> waiter[w].deadline, okWithin |-> waiter[w].okWithin,
   woken |-> waiter[w].woken, result |-> r,
   seen |-> current_state.state_type, at |-> now]

\* wait_for_OKState(): one turn of the loop of lines 75-89, with the lock held, up to
\* the return or to the wait() that releases the lock
WaitCheck(w) ==
  /\ waiter[w].pc = "check"
  /\ waiter' = [waiter EXCEPT ![w] =
       IF ReturnsTrue(current_state.state_type) THEN Returned(w, TRUE)
       ELSE IF ReturnsFalse(current_state.state_type) THEN Returned(w, FALSE)
       ELSE IF TimedOut(EffectiveTimeout(waiter[w].timeout), waiter[w].deadline)
         THEN Returned(w, FALSE)
         ELSE [waiter[w] EXCEPT !.pc = "waiting"]]
  /\ UNCHANGED <<current_state, now, everOK>>
  /\ StatusFrame

\* wait(delay + 0.001) ends without a notification: delay = deadline - now was computed
\* before the wait began, so the wait ends one tick after the deadline at the earliest
WaitExpires(w) ==
  /\ waiter[w].pc = "waiting"
  /\ EffectiveTimeout(waiter[w].timeout) # 0
  /\ now >= waiter[w].deadline + 1
  /\ waiter' = [waiter EXCEPT ![w].pc = "check"]
  /\ UNCHANGED <<current_state, now, everOK>>
  /\ StatusFrame

\* the caller takes the result
WaitReturn(w) ==
  /\ waiter[w].pc = "done"
  /\ waiter' = [waiter EXCEPT ![w] = Idle]
  /\ UNCHANGED <<current_state, now, everOK>>
  /\ StatusFrame

\* time passes
Tick ==
  /\ now < MaxTime
  /\ now' = now + 1
  /\ UNCHANGED <<current_state, waiter, everOK>>
  /\ StatusFrame

InitStatus ==
  /\ current_state = State("INITIALIZING", 0, NoError)
  /\ now = 0
  /\ waiter = [w \in Waiters |-> Idle]
  /\ everOK = FALSE

NextStatus ==
  \/ \E s \in NewStates(now) \cup {NoState} : UpdateState(s)
  \/ \E w \in FirstWaiter, t \in TimeoutArgs : WaitCall(w, t)
  \/ \E w \in FirstWaiter : WaitCheck(w)
  \/ \E w \in FirstWaiter : WaitExpires(w)
  \/ \E w \in FirstWaiter : WaitReturn(w)
  \/ Tick

\* several threads in wait_for_OKState without a timeout, and the update processor
NextWaiters ==
  \/ \E s \in NewStates(now) \cup {NoState} : UpdateState(s)
  \/ \E w \in Waiters : WaitCall(w, NoneTimeout)
  \/ \E w \in Waiters : WaitCheck(w)
  \/ \E w \in Waiters : WaitReturn(w)

(***************************************************************************)
(* DefaultEventProcessor, EventDispatcher and FlushPayloadRunner           *)
(* (event_processor.py), EventMessage (event_types.py).                    *)
(***************************************************************************)
MAX_FLUSH_WORKERS_NUMBER == 5

BATCH_SIZE == 50

MAX_EVENT_SIZE_PER_REQUEST == 50

\* the classes of the events: FlagEvent, MetricEvent, UserEvent, and any other FBEvent
EventClasses == {"FLAGS", "METRICS", "USER", "OTHER"}

\* event = None
NoEvent == [none |-> TRUE]

\* the n-th event the application builds
Events(n) == {[id |-> n, class |-> c, is_send_event |-> b] : c \in EventClasses, b \in BOOLEAN}

\* EventMessage(type, event, await_termination)
EventMessage(type, event) == [type |-> type, event |-> event]

Min(a, b) == IF a <= b THEN a ELSE b

\* the elements of a sequence
Range(q) == {q[i] : i \in 1..Len(q)}

\* __put_message_to_inbox(): put_nowait() fails on a full inbox
InboxFull == Len(inbox) >= InboxCapacity

\* variant: an inbox without a capacity
PutUnbounded(message) == Append(inbox, message)

\* __put_message_to_inbox() for a message that is not SHUTDOWN: dropped on a full inbox
PutNoWait(message) == IF InboxFull THEN inbox ELSE Append(inbox, message)

\* history: put_nowait() of a message of this type fails when the inbox is full
FullPut(type, attempted) ==
  IF attempted /\ InboxFull THEN full_puts \cup {type} ELSE full_puts

\* history: the calls made after stop() has returned, method being called now
LateCall(method) == IF stop_pc = "returned" THEN late_calls \cup {method} ELSE late_calls

\* DefaultEventProcessor.send_event
SendEventBody(event) ==
  /\ next_id' = next_id + 1
  /\ IF ~ep_closed /\ event # NoEvent /\ event.class # "OTHER"
       THEN /\ inbox' = PutNoWait(EventMessage(event.class, event))
            /\ sent_events' = IF InboxFull THEN sent_events ELSE sent_events \cup {event}
            /\ full_puts' = FullPut(event.class, TRUE)
       ELSE UNCHANGED <<inbox, sent_events, full_puts>>
  /\ late_calls' = LateCall("send_event")
  /\ UNCHANGED <<ep_closed, task_stopped, stop_pc, msgs, d_pc, d_closed, buffer, permits,
                 runners, posted, sender_stopped, sender_stop_raised, retained>>
  /\ EventFrame

\* the application calls send_event with an event of any class, or with None
SendEvent(event) ==
  /\ next_id < MaxEvents
  /\ SendEventBody(event)

\* the application calls send_event(UserEvent(user)) when the dispatcher has taken what
\* was sent before, as the tests of the flush workers do
SendUserEvent ==
  /\ next_id < MaxFlushEvents
  /\ inbox = <<>> /\ msgs = <<>>
  /\ SendEventBody([id |-> next_id + 1, class |-> "USER", is_send_event |-> TRUE])

\* variant: flush() that does not look at the closed flag
FlushedInboxAlways(closed) == PutNoWait(EventMessage("FLUSH", NoEvent))

\* DefaultEventProcessor.flush: the inbox after the call, closed being __closed
FlushedInbox(closed) ==
  IF ~closed THEN PutNoWait(EventMessage("FLUSH", NoEvent)) ELSE inbox

\* DefaultEventProcessor.flush, called by the application
Flush ==
  /\ inbox' = FlushedInbox(ep_closed)
  /\ full_puts' = FullPut("FLUSH", ~ep_closed)
  /\ late_calls' = LateCall("flush")
  /\ UNCHANGED <<ep_closed, task_stopped, stop_pc, msgs, d_pc, d_closed, buffer, permits,
                 runners, posted, sender_stopped, sender_stop_raised, next_id, sent_events,
                 retained>>
  /\ EventFrame

\* RepeatableTask.run: the flush task calls flush() every events_flush_interval
FlushTask ==
  /\ ~task_stopped
  /\ inbox' = FlushedInbox(ep_closed)
  /\ full_puts' = FullPut("FLUSH", ~ep_closed)
  /\ UNCHANGED <<ep_closed, task_stopped, stop_pc, msgs, d_pc, d_closed, buffer, permits,
                 runners, posted, sender_stopped, sender_stop_raised, late_calls, next_id,
                 sent_events, retained>>
  /\ EventFrame

\* DefaultEventProcessor.stop, lines 74-79: the flags, the flush task, flush(); a call
\* that finds __closed set returns at once
StopBody ==
  /\ stop_pc \in {"idle", "returned"}
  /\ IF ~ep_closed
       THEN /\ ep_closed' = TRUE
            /\ task_stopped' = TRUE
            /\ inbox' = FlushedInbox(ep_closed')
            /\ stop_pc' = "put_shutdown"
       ELSE /\ stop_pc' = "returned"
            /\ UNCHANGED <<ep_closed, task_stopped, inbox>>
  /\ late_calls' = LateCall("stop")
  /\ UNCHANGED <<full_puts, retained>>
  /\ UNCHANGED <<msgs, d_pc, d_closed, buffer, permits, runners, posted, sender_stopped,
                 sender_stop_raised, next_id, sent_events>>

\* the application calls DefaultEventProcessor.stop
Stop == StopBody /\ EventFrame

\* __put_message_to_inbox, lines 34-39, for the SHUTDOWN message on a full inbox:
\* put_nowait() fails and the thread enters the blocking put()
StopPutNoWaitFails ==
  /\ stop_pc = "put_shutdown"
  /\ InboxFull
  /\ "SHUTDOWN" \notin full_puts
  /\ full_puts' = FullPut("SHUTDOWN", TRUE)
  /\ UNCHANGED <<ep_closed, task_stopped, inbox, stop_pc, msgs, d_pc, d_closed, buffer,
                 permits, runners, posted, sender_stopped, sender_stop_raised, late_calls,
                 next_id, sent_events, retained>>
  /\ EventFrame

\* DefaultEventProcessor.stop, line 80: the SHUTDOWN message is put, at once or, on a
\* full inbox, by the blocking put() when the dispatcher has freed a slot
StopPutShutdown ==
  /\ stop_pc = "put_shutdown"
  /\ ~InboxFull
  /\ inbox' = Append(inbox, EventMessage("SHUTDOWN", NoEvent))
  /\ stop_pc' = "wait_complete"
  /\ UNCHANGED <<ep_closed, task_stopped, msgs, d_pc, d_closed, buffer, permits, runners,
                 posted, sender_stopped, sender_stop_raised, late_calls, full_puts,
                 retained, next_id, sent_events>>
  /\ EventFrame

\* DefaultEventProcessor.stop: waitForComplete() returns once the dispatcher has
\* completed the SHUTDOWN message
StopReturn ==
  /\ stop_pc = "wait_complete"
  /\ d_pc = "exited"
  /\ stop_pc' = "returned"
  /\ UNCHANGED <<ep_closed, task_stopped, inbox, msgs, d_pc, d_closed, buffer, permits,
                 runners, posted, sender_stopped, sender_stop_raised, late_calls, full_puts,
                 retained, next_id, sent_events>>
  /\ EventFrame

\* EventDispatcher.__drain_inbox: one blocking get(), then get_nowait() up to size - 1
DrainInbox ==
  /\ d_pc = "run" /\ msgs = <<>> /\ inbox # <<>>
  /\ LET n == Min(Len(inbox), BATCH_SIZE)
     IN  /\ msgs' = SubSeq(inbox, 1, n)
         /\ inbox' = SubSeq(inbox, n + 1, Len(inbox))
  /\ UNCHANGED <<ep_closed, task_stopped, stop_pc, d_pc, d_closed, buffer, permits, runners,
                 posted, sender_stopped, sender_stop_raised, late_calls, full_puts,
                 retained, next_id, sent_events>>
  /\ EventFrame

\* variant: __put_events_to_buffer() that buffers every event
BufferedAll(event) == Append(buffer, event)

\* EventDispatcher.__put_events_to_buffer: the buffer after the call
Buffered(event) ==
  IF ~d_closed /\ event.is_send_event THEN Append(buffer, event) ELSE buffer

\* EventDispatcher.run, lines 109-110: a FLAGS, METRICS or USER message
ProcessEvent ==
  /\ d_pc = "run" /\ msgs # <<>>
  /\ Head(msgs).type \in {"FLAGS", "METRICS", "USER"}
  /\ buffer' = Buffered(Head(msgs).event)
  /\ msgs' = Tail(msgs)
  /\ UNCHANGED <<ep_closed, task_stopped, inbox, stop_pc, d_pc, d_closed, permits, runners,
                 posted, sender_stopped, sender_stop_raised, late_calls, full_puts,
                 retained, next_id, sent_events>>
  /\ EventFrame

\* variant: __trigger_flush() that clears the buffer whether it got a worker or not
BufferCleared(acquired) == <<>>

\* EventDispatcher.__trigger_flush, line 151: the buffer is cleared inside the branch
\* of a successful acquire(blocking=False), and kept otherwise
BufferAfterFlush(acquired) == IF acquired THEN <<>> ELSE buffer

\* variant: a flush that takes a worker without looking at the semaphore
AcquireAlways == TRUE

\* EventDispatcher.__trigger_flush, line 143: self.__permits.acquire(blocking=False)
Acquire == permits > 0

\* EventDispatcher.__trigger_flush, called for a FLUSH message
ProcessFlush ==
  /\ d_pc = "run" /\ msgs # <<>>
  /\ Head(msgs).type = "FLUSH"
  /\ LET flushing == ~d_closed /\ Len(buffer) > 0
         acquired == flushing /\ Acquire
     IN  /\ permits' = IF acquired THEN permits - 1 ELSE permits
         /\ runners' = IF acquired THEN runners \cup {buffer} ELSE runners
         /\ buffer' = IF flushing THEN BufferAfterFlush(acquired) ELSE buffer
         /\ retained' = IF flushing /\ ~acquired THEN retained \cup Range(buffer) ELSE retained
  /\ msgs' = Tail(msgs)
  /\ UNCHANGED <<ep_closed, task_stopped, inbox, stop_pc, d_pc, d_closed, posted,
                 sender_stopped, sender_stop_raised, late_calls, full_puts, next_id,
                 sent_events>>
  /\ EventFrame

\* EventDispatcher.__shutdown, lines 155-160, called for a SHUTDOWN message: the flag is
\* set and shutdown(wait=True) begins to wait for the runners
ProcessShutdown ==
  /\ d_pc = "run" /\ msgs # <<>>
  /\ Head(msgs).type = "SHUTDOWN"
  /\ d_closed' = TRUE
  /\ d_pc' = "shutdown"
  /\ UNCHANGED <<ep_closed, task_stopped, inbox, stop_pc, msgs, buffer, permits, runners,
                 posted, sender_stopped, sender_stop_raised, late_calls, full_puts,
                 retained, next_id, sent_events>>
  /\ EventFrame

\* variant: shutdown(wait=False), which returns while runners are at work
ShutdownReturnsAtOnce == TRUE

\* ThreadPoolExecutor.shutdown(wait=True) returns when every runner has finished
ShutdownReturns == runners = {}

\* EventDispatcher.__shutdown, lines 160-163, and run, lines 115-116: every runner has
\* finished, sender.stop() is called and what it raises is caught and logged, the
\* message is completed and the thread exits
FinishShutdown(raised) ==
  /\ d_pc = "shutdown"
  /\ ShutdownReturns
  /\ sender_stopped' = TRUE
  /\ sender_stop_raised' = raised
  /\ d_pc' = "exited"
  /\ UNCHANGED <<ep_closed, task_stopped, inbox, stop_pc, msgs, d_closed, buffer, permits,
                 runners, posted, late_calls, full_puts, retained, next_id, sent_events>>
  /\ EventFrame

\* FlushPayloadRunner.run: partition(lst, size)
Partition(lst, size) ==
  [i \in 1..((Len(lst) + size - 1) \div size) |->
     SubSeq(lst, (i - 1) * size + 1, Min(i * size, Len(lst)))]

\* variant: a done callback that releases the permit of a successful runner only
PermitsAfterSuccess(failed) == IF failed = 0 THEN permits + 1 ELSE permits

\* __trigger_flush, line 149: add_done_callback(lambda x: self.__permits.release()), run
\* when the runner has returned, True or False
PermitsAfterRun(failed) == permits + 1

\* FlushPayloadRunner.run and the done callback: the requests are posted one by one
\* until one fails (failed = 0: none does), then the permit is released
RunFlushPayload(payload, failed) ==
  /\ payload \in runners
  /\ LET parts == Partition(payload, MAX_EVENT_SIZE_PER_REQUEST)
         n == IF failed = 0 THEN Len(parts) ELSE failed
     IN  /\ failed <= Len(parts)
         /\ posted' = posted \o [i \in 1..n |-> [events |-> parts[i], ok |-> i # failed]]
  /\ runners' = runners \ {payload}
  /\ permits' = PermitsAfterRun(failed)
  /\ UNCHANGED <<ep_closed, task_stopped, inbox, stop_pc, msgs, d_pc, d_closed, buffer,
                 sender_stopped, sender_stop_raised, late_calls, full_puts, retained,
                 next_id, sent_events>>
  /\ EventFrame

InitEvents ==
  /\ ep_closed = FALSE
  /\ task_stopped = FALSE
  /\ inbox = <<>>
  /\ stop_pc = "idle"
  /\ msgs = <<>>
  /\ d_pc = "run"
  /\ d_closed = FALSE
  /\ buffer = <<>>
  /\ permits = MAX_FLUSH_WORKERS_NUMBER
  /\ runners = {}
  /\ posted = <<>>
  /\ sender_stopped = FALSE
  /\ sender_stop_raised = FALSE
  /\ late_calls = {}
  /\ full_puts = {}
  /\ retained = {}
  /\ next_id = 0
  /\ sent_events = {}

NextEvents ==
  \/ \E e \in Events(next_id + 1) \cup {NoEvent} : SendEvent(e)
  \/ Flush
  \/ FlushTask
  \/ Stop
  \/ StopPutNoWaitFails
  \/ StopPutShutdown
  \/ StopReturn
  \/ DrainInbox
  \/ ProcessEvent
  \/ ProcessFlush
  \/ ProcessShutdown
  \/ \E raised \in BOOLEAN : FinishShutdown(raised)
  \/ \E payload \in runners, failed \in 0..1 : RunFlushPayload(payload, failed)

\* a runner at work with a sender that can fail the first request it gets
RunFlushPayloadFirstFails(payload, failed) ==
  /\ failed = 1 => posted = <<>>
  /\ RunFlushPayload(payload, failed)

\* the processor at work on a stream of user events, more events than flush workers,
\* with a sender that can fail the first request it gets
NextWorkers ==
  \/ SendUserEvent
  \/ Flush
  \/ DrainInbox
  \/ ProcessEvent
  \/ ProcessFlush
  \/ \E payload \in runners, failed \in 0..1 : RunFlushPayloadFirstFails(payload, failed)

\* the processor at work on a stream of user events, more events than flush workers,
\* with a sender that accepts every request
NextFlush ==
  \/ SendUserEvent
  \/ Flush
  \/ DrainInbox
  \/ ProcessEvent
  \/ ProcessFlush
  \/ \E payload \in runners : RunFlushPayload(payload, 0)

(***************************************************************************)
(* DataUpdateStatusProviderImpl.init / upsert (status.py): the store calls *)
(* an update processor makes through the provider.                         *)
(***************************************************************************)
DATA_STORAGE_INIT_ERROR == "Data Storage init error"

DATA_STORAGE_UPDATE_ERROR == "Data Storage update error"

NoPCall == [pc |-> "idle"]

\* a payload as _data_to_dict builds it from a full-sync message: every key present
FullPayload(t, archived) == [c \in Cats |-> [k \in KeysOf(c) |-> [timestamp |-> t, isArchived |-> archived]]]

\* the calls an update processor makes: init with a payload and the payload's version,
\* upsert with an entity and the entity's timestamp
ProviderCalls ==
  {[op |-> "init", all_data |-> [null |-> FALSE, items |-> FullPayload(t, a)],
    version |-> [isInt |-> TRUE, val |-> t]] : t \in 1..MaxVersion, a \in BOOLEAN}
    \cup {[op |-> "upsert", kind |-> "featureFlags", key |-> k,
           item |-> [timestamp |-> t, isArchived |-> a],
           version |-> [isInt |-> TRUE, val |-> t]] :
            k \in KeysOf("featureFlags"), t \in 1..MaxVersion, a \in BOOLEAN}

\* __handle_exception: the error type reported for the failed call
ErrorTypeOf(op) == IF op = "init" THEN DATA_STORAGE_INIT_ERROR ELSE DATA_STORAGE_UPDATE_ERROR

\* variant: init / upsert that report success whatever happened
ResultAlwaysTrue(raised) == TRUE

\* init / upsert: return False from the except clause, True otherwise
Result(raised) == ~raised

\* DataUpdateStatusProviderImpl.init / upsert is called; raises: the store's method is
\* going to raise (the side_effect of the tests' mock)
ProviderCall(r, raises) ==
  /\ pcall = NoPCall /\ req = NoCall
  /\ pcall' = [pc |-> "store", raises |-> raises]
  /\ req' = r
  /\ UNCHANGED <<storage, version, initialized, done, res, maxAccepted, everApplied>>
  /\ UNCHANGED <<statusVars, eventVars, evalVars, clientVars, stopVars, extVars>>

\* try: self.__storage.init(all_data, version), which does not raise
ProviderStoreInit ==
  /\ pcall.pc = "store" /\ ~pcall.raises
  /\ DoInit

\* try: self.__storage.upsert(kind, key, item, version), which does not raise
ProviderStoreUpsert ==
  /\ pcall.pc = "store" /\ ~pcall.raises
  /\ DoUpsert

\* the store call has returned: return True
ProviderReturn ==
  /\ pcall.pc = "store" /\ done
  /\ pcall' = [pc |-> "returned", op |-> req.op, result |-> Result(FALSE)]
  /\ req' = NoCall
  /\ done' = FALSE
  /\ UNCHANGED <<storage, version, initialized, res, maxAccepted, everApplied>>
  /\ UNCHANGED <<statusVars, eventVars, evalVars, clientVars, stopVars, extVars>>

\* the store call raises: except Exception, __handle_exception (update_state with
\* State.interrupted_state(error_type, message)), return False
ProviderHandleException ==
  /\ pcall.pc = "store" /\ pcall.raises /\ ~done
  /\ UpdateStateEffect(State("INTERRUPTED", now, ErrorTypeOf(req.op)))
  /\ pcall' = [pc |-> "returned", op |-> req.op, result |-> Result(TRUE)]
  /\ req' = NoCall
  /\ UNCHANGED <<storage, version, initialized, done, res, maxAccepted, everApplied>>
  /\ UNCHANGED <<now, eventVars, evalVars, clientVars, stopVars, extVars>>

\* the caller takes the result
ProviderTake ==
  /\ pcall.pc = "returned"
  /\ pcall' = NoPCall
  /\ UNCHANGED <<storeVars, statusVars, eventVars, evalVars, clientVars, stopVars, extVars>>

InitProvider == pcall = NoPCall

\* the provider's calls, and the states the update processor reports between them
NextProvider ==
  \/ \E r \in ProviderCalls, raises \in BOOLEAN : ProviderCall(r, raises)
  \/ ProviderStoreInit
  \/ ProviderStoreUpsert
  \/ ProviderReturn
  \/ ProviderHandleException
  \/ ProviderTake
  \/ \E s \in {State("OK", now, NoError), State("OFF", now, NoError)} : UpdateState(s)

(***************************************************************************)
(* Evaluator (evaluator.py) and VariationSplittingAlgorithm.               *)
(***************************************************************************)
REASON_CLIENT_NOT_READY == "client not ready"

REASON_FLAG_NOT_FOUND == "flag not found"

REASON_ERROR == "error in evaluation"

REASON_USER_NOT_SPECIFIED == "user not specified"

REASON_FLAG_OFF == "flag off"

REASON_TARGET_MATCH == "target match"

REASON_RULE_MATCH == "rule match"

REASON_FALLTHROUGH == "fall through all rules"

\* the least element of a non-empty set of indexes: the first item a for loop reaches
First(S) == CHOOSE i \in S : \A j \in S : i <= j

\* the users, by their keyid
UserKeys == {"u1", "u2"}

\* the variation ids of a flag and flag['variationMap']
VariationIds == {"v1", "v2"}

VariationMap == [id \in VariationIds |-> IF id = "v1" THEN "true" ELSE "false"]

\* one entry of rollout_variations['variations']
Rollout(id, lo, hi) == [id |-> id, rollout |-> <<lo, hi>>, exptRollout |-> 1]

\* the lists of rollout entries whose intervals partition [0,1] into half-open ranges:
\* one interval [0,1], or two intervals [0,c) and [c,1)
RolloutLists ==
  {<<Rollout(id, 0, MaxBucket)>> : id \in VariationIds}
    \cup {<<Rollout(ab[1], 0, c), Rollout(ab[2], c, MaxBucket)>> :
            c \in 1..(MaxBucket - 1),
            ab \in {x \in VariationIds \X VariationIds : x[1] # x[2]}}

\* a rule or the fallthrough: no 'dispatchKey', so that the user's keyid is hashed
RolloutVariations(variations, includedInExpt, conditions) ==
  [variations |-> variations, includedInExpt |-> includedInExpt, conditions |-> conditions]

\* a condition is given by the users for which _process_condition returns True
ConditionLists == {<<{"u1"}>>, <<{"u1", "u2"}, {"u2"}>>}

RuleLists ==
  {<<>>}
    \cup {<<RolloutVariations(vs, FALSE, cs)>> : vs \in RolloutLists, cs \in ConditionLists}
    \cup {<<RolloutVariations(vs, FALSE, <<{"u1"}>>),
            RolloutVariations(<<Rollout("v2", 0, MaxBucket)>>, FALSE, <<{"u1", "u2"}>>)>> :
            vs \in RolloutLists}

TargetLists ==
  {<<>>,
   <<[keyIds |-> {"u1"}, variationId |-> "v1"],
     [keyIds |-> {"u1", "u2"}, variationId |-> "v2"]>>}

\* the flags of the store
Flags ==
  [isEnabled : BOOLEAN, disabledVariationId : VariationIds, exptIncludeAllTargets : BOOLEAN,
   targetUsers : TargetLists, rules : RuleLists,
   fallthrough : {RolloutVariations(vs, e, <<>>) : vs \in RolloutLists, e \in BOOLEAN}]

\* int.from_bytes(digest[:4], byteorder='little', signed=True)
MagicNums == (-MaxBucket)..(MaxBucket - 1)

\* VariationSplittingAlgorithm.__percentage_of_key: abs(magic_num / __MIN_INT__), in
\* units of 1 / MaxBucket
PercentageOfKey(magic_num) == IF magic_num < 0 THEN -magic_num ELSE magic_num

\* variant: is_key_belongs_to_percentage with the upper end of the range included
IsKeyBelongsToClosedPercentage(magic_num, lo, hi) ==
  PercentageOfKey(magic_num) >= lo /\ PercentageOfKey(magic_num) <= hi

\* VariationSplittingAlgorithm.is_key_belongs_to_percentage for the range [lo, hi]
IsKeyBelongsToPercentage(magic_num, lo, hi) ==
  \/ lo = 0 /\ hi = MaxBucket
  \/ PercentageOfKey(magic_num) >= lo /\ PercentageOfKey(magic_num) < hi

\* _EvalResult(id, value, reason, is_send_to_expt, ...)
EvalResult(id, value, reason, is_send_to_expt) ==
  [kind |-> "result", id |-> id, value |-> value, reason |-> reason,
   is_send_to_expt |-> is_send_to_expt]

\* a function returns None
None == [kind |-> "none"]

\* _match_feature_flag_disabled_user_variation
MatchFeatureFlagDisabledUserVariation(flag, user) ==
  IF ~flag.isEnabled
    THEN EvalResult(flag.disabledVariationId, VariationMap[flag.disabledVariationId],
                    REASON_FLAG_OFF, FALSE)
    ELSE None

\* _match_targeted_user_variation
MatchTargetedUserVariation(flag, user) ==
  LET hits == {i \in 1..Len(flag.targetUsers) : user \in flag.targetUsers[i].keyIds}
  IN  IF hits # {}
        THEN LET target == flag.targetUsers[First(hits)]
             IN  EvalResult(target.variationId, VariationMap[target.variationId],
                            REASON_TARGET_MATCH, flag.exptIncludeAllTargets)
        ELSE None

\* _match_any_rule: all the conditions of the rule hold for the user
MatchAnyRule(user, rule) == \A i \in 1..Len(rule.conditions) : user \in rule.conditions[i]

\* _get_rollout_variation_option.is_send_to_expt; upper_bound = exptRollout / (hi - lo),
\* capped at 1, and the "expt" key is hashed against [0, upper_bound]
IsSendToExpt(expt_magic_num, rollout, expt_include_all_targets, rule_inclued_in_expt) ==
  IF expt_include_all_targets THEN TRUE
  ELSE IF rule_inclued_in_expt
    THEN LET send_to_expt_percentage == rollout.exptRollout
             splitting_percentage == rollout.rollout[2] - rollout.rollout[1]
         IN  IF send_to_expt_percentage = 0 \/ splitting_percentage = 0 THEN FALSE
             ELSE IF send_to_expt_percentage >= splitting_percentage THEN TRUE
             ELSE PercentageOfKey(expt_magic_num) * splitting_percentage
                    < send_to_expt_percentage * MaxBucket
    ELSE FALSE

\* _get_rollout_variation_option: the first rollout entry whose range holds the key
GetRolloutVariationOption(flag, rollout_variations, reason, magic_num, expt_magic_num) ==
  LET vs == rollout_variations.variations
      hits == {i \in 1..Len(vs) :
                 IsKeyBelongsToPercentage(magic_num, vs[i].rollout[1], vs[i].rollout[2])}
  IN  IF hits # {}
        THEN LET rollout == vs[First(hits)]
             IN  EvalResult(rollout.id, VariationMap[rollout.id], reason,
                            IsSendToExpt(expt_magic_num, rollout, flag.exptIncludeAllTargets,
                                         rollout_variations.includedInExpt))
        ELSE None

\* _match_condition_user_variation: the first rule that matches decides, also when its
\* rollout returns None
MatchConditionUserVariation(flag, user, magic_num, expt_magic_num) ==
  LET hits == {i \in 1..Len(flag.rules) : MatchAnyRule(user, flag.rules[i])}
  IN  IF hits # {}
        THEN GetRolloutVariationOption(flag, flag.rules[First(hits)], REASON_RULE_MATCH,
                                       magic_num, expt_magic_num)
        ELSE None

\* _match_default_user_variation
MatchDefaultUserVariation(flag, user, magic_num, expt_magic_num) ==
  GetRolloutVariationOption(flag, flag.fallthrough, REASON_FALLTHROUGH, magic_num,
                            expt_magic_num)

\* variant: _match_user_variation with the rules tried before the individual targets
MatchUserVariationRulesFirst(flag, user, magic_num, expt_magic_num) ==
  LET er1 == MatchFeatureFlagDisabledUserVariation(flag, user)
      er2 == MatchConditionUserVariation(flag, user, magic_num, expt_magic_num)
      er3 == MatchTargetedUserVariation(flag, user)
  IN  IF er1 # None THEN er1
      ELSE IF er2 # None THEN er2
      ELSE IF er3 # None THEN er3
      ELSE MatchDefaultUserVariation(flag, user, magic_num, expt_magic_num)

\* _match_user_variation: the four steps of __ops in order, the first result that is
\* not None; None when every step returns None
MatchUserVariation(flag, user, magic_num, expt_magic_num) ==
  LET er1 == MatchFeatureFlagDisabledUserVariation(flag, user)
      er2 == MatchTargetedUserVariation(flag, user)
      er3 == MatchConditionUserVariation(flag, user, magic_num, expt_magic_num)
  IN  IF er1 # None THEN er1
      ELSE IF er2 # None THEN er2
      ELSE IF er3 # None THEN er3
      ELSE MatchDefaultUserVariation(flag, user, magic_num, expt_magic_num)

NoEval == [pc |-> "idle"]

\* Evaluator.evaluate is called with a flag of the store and a valid user; magic_num and
\* expt_magic_num are what the md5 digests of the two dispatch keys give
EvaluateCall(flag, user, magic_num, expt_magic_num) ==
  /\ ev = NoEval
  /\ ev' = [pc |-> "called", flag |-> flag, user |-> user, magic_num |-> magic_num,
            expt_magic_num |-> expt_magic_num]
  /\ EvalFrame

\* Evaluator.evaluate
Evaluate ==
  /\ ev.pc = "called"
  /\ ev' = [pc |-> "done", flag |-> ev.flag, user |-> ev.user, magic_num |-> ev.magic_num,
            expt_magic_num |-> ev.expt_magic_num,
            er |-> MatchUserVariation(ev.flag, ev.user, ev.magic_num, ev.expt_magic_num)]
  /\ EvalFrame

\* the caller takes the result
EvaluateReturn ==
  /\ ev.pc = "done"
  /\ ev' = NoEval
  /\ EvalFrame

InitEval == ev = NoEval

NextEval ==
  \/ /\ ev = NoEval
     /\ \E flag \in Flags, user \in UserKeys, magic_num \in MagicNums,
           expt_magic_num \in MagicNums :
          EvaluateCall(flag, user, magic_num, expt_magic_num)
  \/ Evaluate
  \/ EvaluateReturn

(***************************************************************************)
(* FBClient.variation / variation_detail (client.py).                      *)
(***************************************************************************)
\* what self._data_storage.get(FEATURE_FLAGS, key) does: it returns None (the key is
\* absent or archived), raises, or returns a flag; a flag may lack a field the
\* evaluator reads (Malformed)
NoFlag == [kind |-> "none"]

GetRaises == [kind |-> "raises"]

Malformed == [kind |-> "malformed"]

\* the well-formed flags of the store: no targets, no rules, a fallthrough
ClientFlags ==
  {f \in Flags : /\ f.targetUsers = <<>> /\ f.rules = <<>> /\ ~f.exptIncludeAllTargets
                 /\ f.disabledVariationId = "v2" /\ ~f.fallthrough.includedInExpt}

StoredFlags == {NoFlag, GetRaises, Malformed} \cup ClientFlags

\* the user argument: a dict with a key and a name, or anything FBUser.from_dict rejects
NoUser == ""

UserArgs == {"u1", NoUser}

\* the default argument as __handle_default_value returns it: (None, None) or a
\* supported type with the value as a string
Defaults ==
  {[type |-> "None", value |-> "None"], [type |-> "boolean", value |-> "false"],
   [type |-> "string", value |-> "dflt"]}

\* _EvalResult.error(default_value, reason, key, default_value_type)
ErrorResult(default, reason) ==
  [kind |-> "result", id |-> "NE", value |-> default.value, reason |-> reason,
   is_send_to_expt |-> FALSE, flag_type |-> default.type]

\* an _EvalResult of the evaluator, with flag['variationType']
Typed(er) ==
  IF er.kind = "result"
    THEN [kind |-> "result", id |-> er.id, value |-> er.value, reason |-> er.reason,
          is_send_to_expt |-> er.is_send_to_expt, flag_type |-> "boolean"]
    ELSE er

\* cast_variation_by_flag_type: json.loads for a boolean, the string otherwise and when
\* the conversion fails
CastVariationByFlagType(flag_type, variation) ==
  IF flag_type = "boolean" /\ variation \in {"true", "false"}
    THEN [type |-> "bool", value |-> variation]
    ELSE [type |-> flag_type, value |-> variation]

\* variant: _evaluate_internal without its outer except clause
UnexpectedErrorRaised(default) == [kind |-> "raised"]

\* _evaluate_internal: except Exception: return _EvalResult.error(..., REASON_ERROR, ...)
UnexpectedError(default) == ErrorResult(default, REASON_ERROR)

\* _evaluate_internal: the result, None when the evaluator returns None
EvaluateInternal(c) ==
  IF ~c.initialize THEN ErrorResult(c.default, REASON_CLIENT_NOT_READY)
  ELSE IF c.key = NoKey THEN ErrorResult(c.default, REASON_FLAG_NOT_FOUND)
  ELSE IF c.stored = GetRaises THEN UnexpectedError(c.default)
  ELSE IF c.stored = NoFlag THEN ErrorResult(c.default, REASON_FLAG_NOT_FOUND)
  ELSE IF c.user = NoUser THEN ErrorResult(c.default, REASON_USER_NOT_SPECIFIED)
  ELSE IF c.stored = Malformed THEN UnexpectedError(c.default)
  ELSE Typed(MatchUserVariation(c.stored, c.user, c.magic_num, 0))

\* _evaluate_internal reaches self._event_handler(fb_event)
SendsFlagEvent(c) ==
  /\ c.initialize /\ c.key # NoKey /\ c.stored \in ClientFlags /\ c.user # NoUser

\* variation: cast_variation_by_flag_type(er.flag_type, er.value); variation_detail:
\* er.to_evail_detail; both read attributes of er outside any try
Outcome(er) ==
  IF er.kind = "result"
    THEN [kind |-> "returned", reason |-> er.reason,
          variation |-> CastVariationByFlagType(er.flag_type, er.value)]
    ELSE [kind |-> "raised", error |-> "AttributeError"]

NoVCall == [pc |-> "idle"]

\* FBClient.variation / variation_detail is called
VariationCall(c) ==
  /\ vcall = NoVCall
  /\ next_id < MaxEvents
  /\ vcall' = [pc |-> "called", args |-> c]
  /\ UNCHANGED eventVars
  /\ ClientFrame

\* FBClient.variation / variation_detail: _evaluate_internal, the FlagEvent handed to
\* DefaultEventProcessor.send_event, and the conversion of the result
Variation ==
  /\ vcall.pc = "called"
  /\ LET c == vcall.args
         er == EvaluateInternal(c)
         event == [id |-> next_id + 1, class |-> "FLAGS", is_send_event |-> (er.kind = "result")]
     IN  /\ vcall' = [pc |-> "done", args |-> c, out |-> Outcome(er)]
         /\ IF SendsFlagEvent(c)
              THEN /\ next_id' = next_id + 1
                   /\ IF ~ep_closed
                        THEN /\ inbox' = PutNoWait(EventMessage("FLAGS", event))
                             /\ sent_events' =
                                  IF InboxFull THEN sent_events ELSE sent_events \cup {event}
                             /\ full_puts' = FullPut("FLAGS", TRUE)
                        ELSE UNCHANGED <<inbox, sent_events, full_puts>>
              ELSE UNCHANGED <<next_id, inbox, sent_events, full_puts>>
  /\ UNCHANGED <<ep_closed, task_stopped, stop_pc, msgs, d_pc, d_closed, buffer, permits,
                 runners, posted, sender_stopped, sender_stop_raised, late_calls, retained>>
  /\ ClientFrame

\* the caller has the value, or the exception
VariationTake ==
  /\ vcall.pc = "done"
  /\ vcall' = NoVCall
  /\ UNCHANGED eventVars
  /\ ClientFrame

VariationArgs ==
  [method : {"variation", "variation_detail"}, initialize : BOOLEAN, key : {NoKey, "f1"},
   stored : StoredFlags, user : UserArgs, default : Defaults, magic_num : MagicNums]

InitClient == vcall = NoVCall

NextClient ==
  \/ /\ vcall = NoVCall
     /\ \E c \in VariationArgs : VariationCall(c)
  \/ Variation
  \/ VariationTake

(***************************************************************************)
(* FBClient.stop (client.py), Streaming.stop / run / _on_close             *)
(* (streaming.py), NoticeBroadcater.stop / __run (notice_broadcaster.py).  *)
(* The client runs the built-in Streaming as its update processor and a    *)
(* DefaultEventProcessor; InMemoryDataStorage.stop does nothing.           *)
(***************************************************************************)
UNKNOWN_CLOSE_CODE == "Unknown close code"

REQUEST_INVALID_ERROR == "Request invalid"

DATA_INVALID_ERROR == "Received Data invalid"

NETWORK_ERROR == "Network error"

RUNTIME_ERROR == "Runtime error"

WEBSOCKET_ERROR == "WebSocket error"

UNKNOWN_ERROR == "Unknown error"

SYSTEM_QUIT == "System quit"

WS_NORMAL_CLOSE == 1000

WS_GOING_AWAY_CLOSE == 1001

WS_INVALID_REQUEST_CLOSE == 4003

\* the close codes a server ends a connection with
ServerCloseCodes == {WS_NORMAL_CLOSE, WS_GOING_AWAY_CLOSE, WS_INVALID_REQUEST_CLOSE}

\* _SelfClosed(is_self_close, is_reconn, state)
SelfClosed(is_self_close, is_reconn, state) ==
  [is_self_close |-> is_self_close, is_reconn |-> is_reconn, state |-> state]

\* wsapp.close(status=code): the close frame goes out on a connection that is open
Closing(code) == IF wsapp = "open" THEN code ELSE close_code

\* FBClient.stop, lines 157-159, and Streaming.stop, line 222
ClientStop ==
  /\ cs_pc \in {"idle", "returned"}
  /\ cs_calls < MaxStops
  /\ cs_calls' = cs_calls + 1
  /\ force_close' = TRUE
  /\ cs_pc' = "streaming_test"
  /\ UNCHANGED <<running, wsapp, self_closed, s_pc, ping_stopped, b_closed, b_pc>>
  /\ UNCHANGED <<statusVars, eventVars>>
  /\ StopFrame

\* Streaming.stop, line 223: if self.__running and self.__wsapp
StreamingStopTest ==
  /\ cs_pc = "streaming_test"
  /\ cs_pc' = IF running /\ wsapp # "none" THEN "streaming_close" ELSE "ping_stop"
  /\ UNCHANGED <<cs_calls, force_close, running, wsapp, self_closed, s_pc, ping_stopped,
                 b_closed, b_pc>>
  /\ UNCHANGED <<statusVars, eventVars>>
  /\ StopFrame

\* Streaming.stop, lines 224-225: __self_closed is set and __wsapp is read again for
\* close(); the streaming thread may have set it to None since the test, and then the
\* AttributeError leaves FBClient.stop
StreamingStopClose ==
  /\ cs_pc = "streaming_close"
  /\ self_closed' = SelfClosed(TRUE, FALSE, State("OFF", now, NoError))
  /\ IF wsapp = "none"
       THEN /\ cs_pc' = "raised"
            /\ UNCHANGED <<wsapp, close_code>>
       ELSE /\ cs_pc' = "ping_stop"
            /\ wsapp' = IF wsapp = "open" THEN "closing" ELSE wsapp
            /\ close_code' = Closing(WS_NORMAL_CLOSE)
  /\ UNCHANGED <<cs_calls, force_close, running, s_pc, ping_stopped, b_closed, b_pc>>
  /\ UNCHANGED <<closed_by_error, ready, retry_times, last_msg, ready_sets>>
  /\ UNCHANGED <<storeVars, statusVars, eventVars>>
  /\ StreamFrame

\* Streaming.stop, lines 226-227: the ping task is stopped
StreamingStopPing ==
  /\ cs_pc = "ping_stop"
  /\ ping_stopped' = TRUE
  /\ cs_pc' = "event_processor"
  /\ UNCHANGED <<cs_calls, force_close, running, wsapp, self_closed, s_pc, b_closed, b_pc>>
  /\ UNCHANGED <<statusVars, eventVars>>
  /\ StopFrame

\* FBClient.stop, line 160: self._event_processor.stop() is called
ClientStopEventProcessor ==
  /\ cs_pc = "event_processor"
  /\ StopBody
  /\ cs_pc' = "event_processor_wait"
  /\ UNCHANGED <<cs_calls, force_close, running, wsapp, self_closed, s_pc, ping_stopped,
                 b_closed, b_pc>>
  /\ UNCHANGED statusVars
  /\ StopFrame

\* FBClient.stop, lines 160-161: the event processor's stop() has returned, and
\* NoticeBroadcater.stop sets __closed
ClientStopBroadcaster ==
  /\ cs_pc = "event_processor_wait"
  /\ stop_pc = "returned"
  /\ b_closed' = TRUE
  /\ cs_pc' = "join"
  /\ UNCHANGED <<cs_calls, force_close, running, wsapp, self_closed, s_pc, ping_stopped, b_pc>>
  /\ UNCHANGED <<statusVars, eventVars>>
  /\ StopFrame

\* NoticeBroadcater.stop, line 41: join() returns when the broadcaster thread has ended
ClientStopReturn ==
  /\ cs_pc = "join"
  /\ b_pc = "exited"
  /\ cs_pc' = "returned"
  /\ UNCHANGED <<cs_calls, force_close, running, wsapp, self_closed, s_pc, ping_stopped,
                 b_closed, b_pc>>
  /\ UNCHANGED <<statusVars, eventVars>>
  /\ StopFrame

\* NoticeBroadcater.__run: the loop ends at its next test once __closed is set
BroadcasterExit ==
  /\ b_pc = "run"
  /\ b_closed
  /\ b_pc' = "exited"
  /\ UNCHANGED <<cs_pc, cs_calls, force_close, running, wsapp, self_closed, s_pc,
                 ping_stopped, b_closed>>
  /\ UNCHANGED <<statusVars, eventVars>>
  /\ StopFrame

\* variant: an update processor that is initialized as soon as ready is set
StreamingInitializedWhenReady == ready

\* Streaming.initialized, lines 229-231
StreamingInitialized == ready /\ initialized

\* Streaming.run, line 116: the test of the loop; lines 137-140 when it fails
StreamingLoopTest ==
  /\ s_pc = "loop"
  /\ IF ~force_close /\ running
       THEN /\ s_pc' = "init"
            /\ UNCHANGED ready
       ELSE /\ s_pc' = "exited"
            /\ ready' = TRUE
  /\ UNCHANGED <<cs_pc, cs_calls, force_close, running, wsapp, self_closed, ping_stopped,
                 b_closed, b_pc>>
  /\ UNCHANGED <<closed_by_error, retry_times, close_code, last_msg, ready_sets>>
  /\ UNCHANGED <<storeVars, statusVars, eventVars>>
  /\ StreamFrame

\* history: no message and no error yet on the connection
NoMessage == [kind |-> "none", outcome |-> "none"]

\* Streaming._init_wsapp, line 105, and run_forever, line 119: the connection is made
StreamingInitWsapp ==
  /\ s_pc = "init"
  /\ wsapp' = "open"
  /\ close_code' = 0
  /\ last_msg' = NoMessage
  /\ s_pc' = "run_forever"
  /\ UNCHANGED <<cs_pc, cs_calls, force_close, running, self_closed, ping_stopped,
                 b_closed, b_pc>>
  /\ UNCHANGED <<closed_by_error, ready, retry_times, ready_sets>>
  /\ UNCHANGED <<storeVars, statusVars, eventVars>>
  /\ StreamFrame

\* the feature flags of a data-sync message: for each key no entry, or an entry with its
\* updatedAt and isArchived; the messages drawn archive no other flag than f1
WireFlags ==
  {ff \in [KeysOf("featureFlags") -> {NoItem} \cup Entities] :
     ff["f2"] = NoItem \/ ~ff["f2"].isArchived}

\* the messages of the server: text that is not JSON, JSON that valide_all_data turns
\* down (a pong), and data-sync messages, complete or with an entry that lacks a field
\* _data_to_dict reads
\* a data-sync message without segments
NoSegments == EmptyStorage["segments"]

\* the patches that carry a segment: their flags are f1 alone, or none
WireFlagsWithSegment ==
  {ff \in WireFlags : ff["f2"] = NoItem /\ (ff["f1"] = NoItem \/ ~ff["f1"].isArchived)}

Messages ==
  {[kind |-> "malformed"], [kind |-> "pong"]}
    \cup {[kind |-> "data-sync", eventType |-> e, featureFlags |-> ff,
           segments |-> NoSegments, complete |-> TRUE] :
            e \in {"full", "patch"}, ff \in WireFlags}
    \cup {[kind |-> "data-sync", eventType |-> "patch", featureFlags |-> ff,
           segments |-> [k \in KeysOf("segments") |-> Live(t)], complete |-> TRUE] :
            ff \in WireFlagsWithSegment, t \in 1..MaxVersion}
    \cup {[kind |-> "data-sync", eventType |-> e, complete |-> FALSE,
           featureFlags |-> [k \in KeysOf("featureFlags") |-> Live(MaxVersion)],
           segments |-> NoSegments] :
            e \in {"full", "patch"}}

\* _data_to_dict: the version is the largest timestamp of the flags and segments, 0
\* without entries; all_data has both categories, the flags first
DataVersion(data) ==
  LET ts == {data[c][k].timestamp :
               <<c, k>> \in {p \in Cats \X {"f1", "f2", "s1"} :
                               p[2] \in KeysOf(p[1]) /\ data[p[1]][p[2]] # NoItem}}
  IN  IF ts = {} THEN 0 ELSE CHOOSE t \in ts : \A u \in ts : u <= t

DataToDict(data) ==
  [version |-> DataVersion(data), all_data |-> [c \in Cats |-> data[c]]]

\* the position of a key in the message
KeyOrder(k) == IF k = "f1" THEN 1 ELSE 2

\* variant: the items taken in the order of the message
UnsortedKeys(ff) ==
  LET present == {k \in DOMAIN ff : ff[k] # NoItem}
  IN  CHOOSE q \in [1..Cardinality(present) -> present] :
        \A i, j \in DOMAIN q : i < j => KeyOrder(q[i]) < KeyOrder(q[j])

\* _on_process_data, line 196: the keys of the items, sorted by timestamp; sorted() is
\* stable
SortedKeys(ff) ==
  LET present == {k \in DOMAIN ff : ff[k] # NoItem}
      Before(j, k) == \/ ff[j].timestamp < ff[k].timestamp
                      \/ ff[j].timestamp = ff[k].timestamp /\ KeyOrder(j) < KeyOrder(k)
  IN  CHOOSE q \in [1..Cardinality(present) -> present] :
        \A i, j \in DOMAIN q : i < j => Before(q[i], q[j])

\* the store as one value
TheStore == [storage |-> storage, version |-> version, initialized |-> initialized]

\* InMemoryDataStorage.init on the store st, all_data being non-empty and ver an int
InitOn(st, all_data, ver) ==
  IF ver <= st.version
    THEN st
    ELSE [storage |-> all_data, version |-> ver, initialized |-> TRUE]

\* InMemoryDataStorage.upsert on the store st, with the item's timestamp as version
UpsertOn(st, kind, key, item) ==
  LET v == st.storage[kind][key]
  IN  IF item.timestamp <= st.version
        THEN st
        ELSE IF v = NoItem \/ v.timestamp < item.timestamp
               THEN [storage |-> [st.storage EXCEPT ![kind][key] = item],
                     version |-> item.timestamp, initialized |-> TRUE]
               ELSE st

\* _on_process_data, line 196: the items in the order of the two loops, the categories
\* as all_data.items() yields them (lines 47-48) and the items of each by timestamp
PatchItems(all_data) ==
  LET qf == SortedKeys(all_data["featureFlags"])
      qs == SortedKeys(all_data["segments"])
  IN  [i \in 1..(Len(qf) + Len(qs)) |->
         IF i <= Len(qf) THEN [kind |-> "featureFlags", key |-> qf[i]]
                         ELSE [kind |-> "segments", key |-> qs[i - Len(qf)]]]

\* the call upsert(kind, item['id'], item, item['timestamp']) made for the item q[i]
UpsertCall(all_data, q, i) ==
  [kind |-> q[i].kind, key |-> q[i].key,
   version |-> all_data[q[i].kind][q[i].key].timestamp]

\* _on_process_data, lines 195-196: all() over the upserts of the items q[i], q[i+1], ...;
\* the upsert number raises_at raises in the store and the provider returns False;
\* made are the upsert calls made so far
RECURSIVE UpsertAll(_, _, _, _, _, _)
UpsertAll(st, all_data, q, i, raises_at, made) ==
  IF i > Len(q)
    THEN [store |-> st, op_ok |-> TRUE, calls |-> made]
    ELSE IF i = raises_at
           THEN [store |-> st, op_ok |-> FALSE,
                 calls |-> Append(made, UpsertCall(all_data, q, i))]
           ELSE UpsertAll(UpsertOn(st, q[i].kind, q[i].key, all_data[q[i].kind][q[i].key]),
                          all_data, q, i + 1, raises_at,
                          Append(made, UpsertCall(all_data, q, i)))

\* _on_process_data, lines 194-198: the calls of the provider
ProcessData(msg, raises_at) ==
  LET d == DataToDict(msg)
  IN  IF msg.eventType = "patch"
        THEN UpsertAll(TheStore, d.all_data, PatchItems(d.all_data), 1, raises_at, <<>>)
        ELSE IF raises_at = 1
               THEN [store |-> TheStore, op_ok |-> FALSE, calls |-> <<>>]
               ELSE [store |-> InitOn(TheStore, d.all_data, d.version), op_ok |-> TRUE,
                     calls |-> <<>>]

\* the number of provider calls _on_process_data can make for the message
ProviderCallsOf(msg) ==
  IF msg.kind # "data-sync" \/ ~msg.complete
    THEN 0
    ELSE IF msg.eventType = "patch"
           THEN Len(PatchItems(DataToDict(msg).all_data))
           ELSE 1

\* variant: _on_process_data that sets ready after every message it has processed
ReadySetAlways(is_set) == TRUE

\* _on_process_data, lines 200-202: ready.set() is called if the event is not set
ReadySet(is_set) == ~is_set

\* variant: a JSONDecodeError that asks for a new connection
JSONDecodeErrorReconnAlways == TRUE

\* _on_message, line 217: is_reconn of the close made for a JSONDecodeError
JSONDecodeErrorReconn == FALSE

\* history: what became of a message; for an error passed to _on_error, its class
Handled(msg, outcome) == [kind |-> msg.kind, outcome |-> outcome]

\* Streaming._on_message, with _on_process_data: a message arrives on the open
\* connection; raises_at is the provider call in which the store raises, 0 if in none
StreamingOnMessage(msg, raises_at) ==
  /\ s_pc = "run_forever" /\ wsapp = "open" /\ ~closed_by_error
  /\ raises_at <= ProviderCallsOf(msg)
  /\ IF msg.kind = "malformed"
       THEN \* json.JSONDecodeError, lines 216-218
            /\ self_closed' = SelfClosed(TRUE, JSONDecodeErrorReconn,
                                         State("OFF", now, DATA_INVALID_ERROR))
            /\ wsapp' = "closing"
            /\ close_code' = Closing(WS_GOING_AWAY_CLOSE)
            /\ last_msg' = Handled(msg, "malformed")
            /\ UNCHANGED <<storage, version, initialized, current_state, waiter, everOK,
                           ready, ready_sets, everApplied>>
       ELSE IF msg.kind = "pong"
              THEN \* valide_all_data is false
                   /\ last_msg' = Handled(msg, "ignored")
                   /\ UNCHANGED <<storage, version, initialized, current_state, waiter,
                                  everOK, ready, ready_sets, self_closed, wsapp, close_code,
                                  everApplied>>
              ELSE IF ~msg.complete
                     THEN \* _data_to_dict raises KeyError: except Exception, line 215,
                          \* does nothing with it
                          /\ last_msg' = Handled(msg, "convert_error")
                          /\ UNCHANGED <<storage, version, initialized, current_state,
                                         waiter, everOK, ready, ready_sets, self_closed,
                                         wsapp, close_code, everApplied>>
                     ELSE LET r == ProcessData(msg, raises_at)
                          IN  /\ storage' = r.store.storage
                              /\ version' = r.store.version
                              /\ initialized' = r.store.initialized
                              /\ everApplied' = (everApplied \/ r.store # TheStore)
                              /\ IF r.op_ok
                                   THEN \* lines 199-204
                                        /\ ready' = TRUE
                                        /\ ready_sets' = IF ReadySet(ready)
                                                           THEN ready_sets + 1
                                                           ELSE ready_sets
                                        /\ UpdateStateEffect(State("OK", now, NoError))
                                        /\ last_msg' = Handled(msg, "ok")
                                        /\ UNCHANGED <<self_closed, wsapp, close_code>>
                                   ELSE \* the provider has reported the failure; lines
                                        \* 211-214
                                        /\ UpdateStateEffect(State("INTERRUPTED", now,
                                             IF msg.eventType = "patch"
                                               THEN DATA_STORAGE_UPDATE_ERROR
                                               ELSE DATA_STORAGE_INIT_ERROR))
                                        /\ self_closed' = SelfClosed(TRUE, TRUE, NoState)
                                        /\ wsapp' = "closing"
                                        /\ close_code' = Closing(WS_GOING_AWAY_CLOSE)
                                        /\ last_msg' = Handled(msg, "store_failed")
                                        /\ UNCHANGED <<ready, ready_sets>>
  /\ UNCHANGED <<cs_pc, cs_calls, force_close, running, s_pc, ping_stopped, b_closed, b_pc>>
  /\ UNCHANGED <<closed_by_error, retry_times>>
  /\ UNCHANGED <<req, done, res, maxAccepted, now, eventVars>>
  /\ MessageFrame

\* history: no patch has been processed
NoPatch == [none |-> TRUE]

\* history: the entities of a patch and the upsert calls _on_process_data made for it
PatchRecord(msg, raises_at) ==
  IF msg.kind = "data-sync" /\ msg.complete /\ msg.eventType = "patch"
    THEN LET r == ProcessData(msg, raises_at)
         IN  [all_data |-> DataToDict(msg).all_data, calls |-> r.calls, op_ok |-> r.op_ok]
    ELSE NoPatch

\* Streaming._on_message, no record kept of the calls it makes
OnMessage(msg, raises_at) ==
  /\ StreamingOnMessage(msg, raises_at)
  /\ UNCHANGED patch

\* Streaming._on_message, the upsert calls of a patch recorded
OnMessageRecorded(msg, raises_at) ==
  /\ StreamingOnMessage(msg, raises_at)
  /\ patch' = PatchRecord(msg, raises_at)

\* the errors run_forever passes to _on_error
WsErrors == {"WebSocketException", "ConnectionError", "SystemExit", "Exception"}

\* _handle_ws_error: is_reconn, is_close_ws and the state
HandleWsError(error) ==
  IF error = "WebSocketException"
    THEN [is_reconn |-> TRUE, is_close_ws |-> FALSE,
          state |-> State("INTERRUPTED", now, WEBSOCKET_ERROR)]
    ELSE IF error = "ConnectionError"
           THEN [is_reconn |-> TRUE, is_close_ws |-> FALSE,
                 state |-> State("INTERRUPTED", now, NETWORK_ERROR)]
           ELSE IF error = "SystemExit"
                  THEN [is_reconn |-> FALSE, is_close_ws |-> FALSE,
                        state |-> State("OFF", now, SYSTEM_QUIT)]
                  ELSE [is_reconn |-> TRUE, is_close_ws |-> TRUE,
                        state |-> State("INTERRUPTED", now, RUNTIME_ERROR)]

\* variant: _on_error that does not mark the connection as ended by the error
ClosedByErrorUnset == FALSE

\* _on_error, line 179
ClosedByError == TRUE

\* Streaming._on_error, called in the streaming thread by run_forever
StreamingOnError(error) ==
  /\ s_pc = "run_forever" /\ wsapp = "open" /\ ~closed_by_error
  /\ LET h == HandleWsError(error)
     IN  IF h.is_close_ws
           THEN /\ self_closed' = SelfClosed(TRUE, h.is_reconn, h.state)
                /\ wsapp' = "closing"
                /\ close_code' = Closing(WS_GOING_AWAY_CLOSE)
                /\ UNCHANGED <<running, closed_by_error, current_state, waiter, everOK>>
           ELSE /\ running' = h.is_reconn
                /\ closed_by_error' = ClosedByError
                /\ UpdateStateEffect(h.state)
                /\ UNCHANGED <<self_closed, wsapp, close_code>>
  /\ last_msg' = [kind |-> "error", outcome |-> error]
  /\ UNCHANGED <<cs_pc, cs_calls, force_close, s_pc, ping_stopped, b_closed, b_pc>>
  /\ UNCHANGED <<ready, retry_times, ready_sets>>
  /\ UNCHANGED <<storeVars, now, eventVars>>
  /\ StreamFrame

\* Streaming._on_close, lines 149-169, called in the streaming thread when the
\* connection ends: by_server with the close code of the server (or after an error), or
\* after a close() of this side; run_forever then returns.  After a close of this side
\* __self_closed is read at line 151 and again at line 152, and stop() may assign it
\* in between: the second read is StreamingOnCloseState
StreamingOnClose(by_server, code) ==
  /\ s_pc = "run_forever"
  /\ wsapp = IF by_server THEN "open" ELSE "closing"
  /\ IF self_closed.is_self_close
       THEN /\ running' = self_closed.is_reconn
            /\ s_pc' = "on_close_state"
            /\ UNCHANGED <<current_state, waiter, everOK>>
       ELSE /\ s_pc' = "after_run"
            /\ IF closed_by_error
                 THEN UNCHANGED <<running, current_state, waiter, everOK>>
                 ELSE IF code = WS_INVALID_REQUEST_CLOSE
                        THEN /\ running' = FALSE
                             /\ UpdateStateEffect(State("OFF", now, REQUEST_INVALID_ERROR))
                        ELSE /\ running' = TRUE
                             /\ UpdateStateEffect(State("INTERRUPTED", now,
                                                        UNKNOWN_CLOSE_CODE))
  /\ wsapp' = "closed"
  /\ UNCHANGED <<cs_pc, cs_calls, force_close, self_closed, ping_stopped, b_closed, b_pc>>
  /\ UNCHANGED <<streamVars, storeVars, now, eventVars>>
  /\ StreamFrame

\* Streaming._on_close, lines 152 and 168-169, after a close of this side: the state of
\* __self_closed as it is now is passed to update_state
StreamingOnCloseState ==
  /\ s_pc = "on_close_state"
  /\ UpdateStateEffect(self_closed.state)
  /\ s_pc' = "after_run"
  /\ UNCHANGED <<cs_pc, cs_calls, force_close, running, wsapp, self_closed, ping_stopped,
                 b_closed, b_pc>>
  /\ UNCHANGED <<streamVars, storeVars, now, eventVars>>
  /\ StreamFrame

\* BackoffAndJitterStrategy.next_delay, __count_backoff_time, line 35: the float
\* first_delay times 2 ** retry_times raises OverflowError once retry_times has grown
\* to the size no float holds
NextDelayRaises(retries) == retries >= MaxRetryTimes

\* Streaming.run, lines 125-131: run_forever has returned; next_delay, whose retry_times
\* starts again (reset) after a connection that has lasted, and sleep; except Exception
StreamingAfterRun(reset) ==
  /\ s_pc = "after_run"
  /\ IF running
       THEN LET retries == IF reset THEN 0 ELSE retry_times
            IN  IF NextDelayRaises(retries)
                  THEN /\ UpdateStateEffect(State("OFF", now, UNKNOWN_ERROR))
                       /\ retry_times' = retries
                       /\ s_pc' = "finally"
                  ELSE /\ retry_times' = Min(retries + 1, MaxRetryTimes)
                       /\ s_pc' = "sleep"
                       /\ UNCHANGED <<current_state, waiter, everOK>>
       ELSE /\ reset = FALSE
            /\ s_pc' = "finally"
            /\ UNCHANGED <<retry_times, current_state, waiter, everOK>>
  /\ UNCHANGED <<cs_pc, cs_calls, force_close, running, wsapp, self_closed, ping_stopped,
                 b_closed, b_pc>>
  /\ UNCHANGED <<closed_by_error, ready, close_code, last_msg, ready_sets>>
  /\ UNCHANGED <<storeVars, now, eventVars>>
  /\ StreamFrame

\* Streaming.run, lines 128 and 132-136: sleep(delay) returns, and the finally clause
StreamingFinally ==
  /\ s_pc \in {"sleep", "finally"}
  /\ wsapp' = "none"
  /\ self_closed' = SelfClosed(FALSE, FALSE, NoState)
  /\ closed_by_error' = FALSE
  /\ s_pc' = "loop"
  /\ UNCHANGED <<cs_pc, cs_calls, force_close, running, ping_stopped, b_closed, b_pc>>
  /\ UNCHANGED <<ready, retry_times, close_code, last_msg, ready_sets>>
  /\ UNCHANGED <<storeVars, statusVars, eventVars>>
  /\ StreamFrame

InitStop ==
  /\ cs_pc = "idle"
  /\ cs_calls = 0
  /\ force_close = FALSE
  /\ running = TRUE
  /\ wsapp = "none"
  /\ self_closed = SelfClosed(FALSE, FALSE, NoState)
  /\ s_pc = "loop"
  /\ ping_stopped = FALSE
  /\ b_closed = FALSE
  /\ b_pc = "run"

NextStop ==
  \/ ClientStop
  \/ StreamingStopTest
  \/ StreamingStopClose
  \/ StreamingStopPing
  \/ ClientStopEventProcessor
  \/ ClientStopBroadcaster
  \/ ClientStopReturn
  \/ BroadcasterExit
  \/ StreamingLoopTest
  \/ StreamingInitWsapp
  \/ \E by_server \in BOOLEAN, code \in ServerCloseCodes : StreamingOnClose(by_server, code)
  \/ StreamingOnCloseState
  \/ \E reset \in BOOLEAN : StreamingAfterRun(reset)
  \/ StreamingFinally
  \/ StopPutShutdown
  \/ StopReturn
  \/ DrainInbox
  \/ ProcessShutdown
  \/ \E raised \in BOOLEAN : FinishShutdown(raised)

(***************************************************************************)
(* NoticeBroadcater (notice_broadcaster.py) and the notices of             *)
(* flag_change_notification.py.                                            *)
(***************************************************************************)
FLAG_CHANGE_NOTICE_TYPE == "flag_change_notice"

\* the notice type of the tests
TEST_NOTICE_TYPE == "test_notice_type"

NoticeTypes == {FLAG_CHANGE_NOTICE_TYPE, TEST_NOTICE_TYPE}

\* a notice_type argument that is blank
BlankType == " "

Listeners == {"l1", "l2"}

\* listener = None
NoListener == "None"

\* a notice: id is its position among the notices broadcast, content the flag key of a
\* FlagChangedNotice
Notice(id, notice_type, content) == [id |-> id, notice_type |-> notice_type, content |-> content]

\* the number of registrations of all types
Registrations == Len(listeners[FLAG_CHANGE_NOTICE_TYPE]) + Len(listeners[TEST_NOTICE_TYPE])

\* list.append(listener)
Appended(lst, listener) == Append(lst, listener)

\* list.remove(listener): the first occurrence goes
Removed(lst, listener) ==
  LET i == CHOOSE j \in 1..Len(lst) : lst[j] = listener /\ \A h \in 1..(j - 1) : lst[h] # listener
  IN  SubSeq(lst, 1, i - 1) \o SubSeq(lst, i + 1, Len(lst))

\* NoticeBroadcater.add_listener
AddListener(notice_type, listener) ==
  /\ Registrations < MaxRegistrations
  /\ IF notice_type # BlankType /\ listener # NoListener
       THEN /\ listener_types' = listener_types \cup {notice_type}
            /\ listeners' = [listeners EXCEPT ![notice_type] = Appended(@, listener)]
       ELSE UNCHANGED <<listener_types, listeners>>
  /\ UNCHANGED <<notice_queue, broadcasts, calls, removals>>
  /\ NoticeFrame

\* NoticeBroadcater.remove_listener; list.remove raises ValueError for a listener that
\* is not in the list, and the call leaves the lists as they were
RemoveListener(notice_type, listener) ==
  /\ removals < MaxRemovals
  /\ removals' = removals + 1
  /\ IF notice_type \in listener_types /\ listener # NoListener
       THEN IF listeners[notice_type] = <<>>
              THEN /\ listener_types' = listener_types \ {notice_type}
                   /\ UNCHANGED listeners
              ELSE /\ listeners' =
                        IF \E j \in 1..Len(listeners[notice_type]) : listeners[notice_type][j] = listener
                          THEN [listeners EXCEPT ![notice_type] = Removed(@, listener)]
                          ELSE listeners
                   /\ UNCHANGED listener_types
       ELSE UNCHANGED <<listener_types, listeners>>
  /\ UNCHANGED <<notice_queue, broadcasts, calls>>
  /\ NoticeFrame

\* NoticeBroadcater.broadcast: Queue.put
Broadcast(notice_type, content) ==
  /\ Len(broadcasts) < MaxNotices
  /\ LET notice == Notice(Len(broadcasts) + 1, notice_type, content)
     IN  /\ notice_queue' = Append(notice_queue, notice)
         /\ broadcasts' = Append(broadcasts, notice)
  /\ UNCHANGED <<listener_types, listeners, calls, removals>>
  /\ NoticeFrame

\* variant: a queue whose get() returns the notice put last
GetLast(q) == [notice |-> q[Len(q)], rest |-> SubSeq(q, 1, Len(q) - 1)]

\* Queue.get: the notice put first
Get1(q) == [notice |-> Head(q), rest |-> Tail(q)]

\* variant: a dispatch that ends at the first listener that raises
CallsUntilRaise(lst, notice, raising) ==
  LET bad == {j \in 1..Len(lst) : lst[j] \in raising}
      last == IF bad = {} THEN Len(lst) ELSE CHOOSE j \in bad : \A h \in bad : j <= h
  IN  [j \in 1..last |-> [listener |-> lst[j], notice |-> notice.id, raised |-> lst[j] \in raising]]

\* __notice_process, lines 53-57: every listener of the list is called, in the order of
\* the list, whatever the listeners before it did
CallsOf(lst, notice, raising) ==
  [j \in 1..Len(lst) |-> [listener |-> lst[j], notice |-> notice.id, raised |-> lst[j] \in raising]]

\* NoticeBroadcater.__run, lines 44-49, with __notice_process: the thread takes a notice
\* from the queue and calls the listeners of its type; the listeners in raising raise
NoticeProcess(raising) ==
  /\ b_pc = "run"
  /\ notice_queue # <<>>
  /\ LET g == Get1(notice_queue)
     IN  /\ notice_queue' = g.rest
         /\ calls' = IF g.notice.notice_type \in listener_types
                       THEN calls \o CallsOf(listeners[g.notice.notice_type], g.notice, raising)
                       ELSE calls
  /\ UNCHANGED <<listener_types, listeners, broadcasts, removals>>
  /\ NoticeFrame

\* NoticeBroadcater.stop, line 40
BroadcasterStop ==
  /\ ~b_closed
  /\ b_closed' = TRUE
  /\ UNCHANGED <<cs_pc, cs_calls, force_close, running, wsapp, self_closed, s_pc,
                 ping_stopped, b_pc>>
  /\ UNCHANGED <<statusVars, eventVars>>
  /\ StopFrame

InitNotice ==
  /\ listener_types = {}
  /\ listeners = [t \in NoticeTypes |-> <<>>]
  /\ notice_queue = <<>>
  /\ broadcasts = <<>>
  /\ calls = <<>>
  /\ removals = 0

\* the threads that register listeners and broadcast, and the broadcaster's thread
NextNotice ==
  \/ \E t \in NoticeTypes \cup {BlankType}, l \in Listeners \cup {NoListener} : AddListener(t, l)
  \/ \E t \in NoticeTypes, l \in Listeners \cup {NoListener} : RemoveListener(t, l)
  \/ \E t \in NoticeTypes : Broadcast(t, "f1")
  \/ \E raising \in SUBSET Listeners : NoticeProcess(raising)
  \/ BroadcasterStop
  \/ BroadcasterExit

(***************************************************************************)
(* The offline client: NullUpdateProcessor (update_processor.py) and       *)
(* FBClient.initialize_from_external_json (client.py).                     *)
(***************************************************************************)
NoOCall == [pc |-> "idle"]

\* variant: initialize_from_external_json without the test of line 388
UsesExternalJsonAlways(offline) == TRUE

\* initialize_from_external_json, line 388: if self._config.is_offline
UsesExternalJson(offline) == offline

\* FBClient.__init__, lines 93-95: the update processor is built and started; offline it
\* is the NullUpdateProcessor, whose start() sets ready and reports the state OK
ClientBuild(offline) ==
  /\ o_pc = "new"
  /\ o_pc' = "started"
  /\ is_offline' = offline
  /\ IF offline
       THEN /\ ready' = TRUE
            /\ UpdateStateEffect(State("OK", now, NoError))
       ELSE UNCHANGED <<ready, current_state, waiter, everOK>>
  /\ UNCHANGED <<o_call, now, storeVars>>
  /\ UNCHANGED <<closed_by_error, retry_times, close_code, last_msg, ready_sets>>
  /\ OfflineFrame

\* FBClient.initialize_from_external_json: json.loads raises on text that is not JSON and
\* _data_to_dict on an entry that lacks a field, and the exception leaves the call; the
\* store is the InMemoryDataStorage, whose init does not raise
InitializeFromExternalJson(json) ==
  /\ o_pc = "started" /\ o_call = NoOCall
  /\ IF ~UsesExternalJson(is_offline)
       THEN /\ o_call' = [pc |-> "returned", json |-> json, result |-> "False"]
            /\ UNCHANGED <<storage, version, initialized>>
       ELSE IF json.kind = "malformed"
              THEN /\ o_call' = [pc |-> "returned", json |-> json, result |-> "raised"]
                   /\ UNCHANGED <<storage, version, initialized>>
              ELSE IF json.kind = "pong"
                     THEN /\ o_call' = [pc |-> "returned", json |-> json, result |-> "False"]
                          /\ UNCHANGED <<storage, version, initialized>>
                     ELSE IF ~json.complete
                            THEN /\ o_call' = [pc |-> "returned", json |-> json,
                                               result |-> "raised"]
                                 /\ UNCHANGED <<storage, version, initialized>>
                            ELSE LET d == DataToDict(json)
                                     st == InitOn(TheStore, d.all_data, d.version)
                                 IN  /\ storage' = st.storage
                                     /\ version' = st.version
                                     /\ initialized' = st.initialized
                                     /\ o_call' = [pc |-> "returned", json |-> json,
                                                   result |-> "True"]
  /\ UNCHANGED <<o_pc, is_offline, statusVars, streamVars>>
  /\ UNCHANGED <<req, done, res, maxAccepted, everApplied>>
  /\ OfflineFrame

\* the caller takes the result
OfflineTake ==
  /\ o_call.pc = "returned"
  /\ o_call' = NoOCall
  /\ UNCHANGED <<o_pc, is_offline, storeVars, statusVars, streamVars>>
  /\ OfflineFrame

\* update_status_provider.wait_for_OKState(timeout), called on the offline client
OfflineWaitCall(w, timeout) ==
  /\ o_pc = "started" /\ is_offline
  /\ WaitCall(w, timeout)

InitOffline ==
  /\ o_pc = "new"
  /\ is_offline = FALSE
  /\ o_call = NoOCall

NextOffline ==
  \/ \E offline \in BOOLEAN : ClientBuild(offline)
  \/ \E json \in Messages : InitializeFromExternalJson(json)
  \/ OfflineTake
  \/ \E w \in FirstWaiter, t \in TimeoutArgs : OfflineWaitCall(w, t)
  \/ \E w \in FirstWaiter : WaitCheck(w)
  \/ \E w \in FirstWaiter : WaitReturn(w)

InitStreaming ==
  /\ closed_by_error = FALSE
  /\ ready = FALSE
  /\ retry_times = 0
  /\ close_code = 0
  /\ last_msg = NoMessage
  /\ ready_sets = 0

\* the streaming thread with its connection, the server and a thread that calls stop()
NextStreaming ==
  \/ StreamingLoopTest
  \/ StreamingInitWsapp
  \/ \E msg \in Messages, raises_at \in 0..Cardinality(KeysOf("featureFlags")) :
       OnMessage(msg, raises_at)
  \/ \E error \in WsErrors : StreamingOnError(error)
  \/ \E by_server \in BOOLEAN, code \in ServerCloseCodes : StreamingOnClose(by_server, code)
  \/ StreamingOnCloseState
  \/ \E reset \in BOOLEAN : StreamingAfterRun(reset)
  \/ StreamingFinally
  \/ ClientStop
  \/ StreamingStopTest
  \/ StreamingStopClose
  \/ StreamingStopPing

(***************************************************************************)
(* InMemoryDataStorage called by several threads at once.  A call runs     *)
(* line by line: the version test of init and upsert comes before          *)
(* write_lock(), the body of a write runs inside ReadWriteLock's write     *)
(* lock and the body of a read inside its read lock (utils/rwlock.py).     *)
(***************************************************************************)
Threads == {"t1", "t2", "t3"}

NoThread == "none"

IntVersion(v) == [isInt |-> TRUE, val |-> v]

\* init with a data set that holds flag f1 at version v
RWInit(v) ==
  [op |-> "init",
   all_data |-> [null |-> FALSE,
                 items |-> [EmptyStorage EXCEPT !["featureFlags"]["f1"] = Live(v)]],
   version |-> IntVersion(v)]

\* upsert of a flag whose timestamp is the version of the call
RWUpsert(key, v) ==
  [op |-> "upsert", kind |-> "featureFlags", key |-> key, item |-> Live(v),
   version |-> IntVersion(v)]

RWWrites ==
  {RWInit(v) : v \in 1..MaxVersion}
    \cup {RWUpsert(key, v) : key \in KeysOf("featureFlags"), v \in 1..MaxVersion}

RWReads == {[op |-> "get", kind |-> "featureFlags", key |-> "f1"], [op |-> "latest_version"]}

RWFrame ==
  UNCHANGED <<req, done, res, statusVars, eventVars, providerVars, evalVars, clientVars,
              stopVars, streamVars, noticeVars, offVars, patchVars, backoffVars>>

\* a thread calls init, upsert, get or latest_version
RWCall(t, call) ==
  /\ rw_pc[t] = "idle"
  /\ rw_calls < MaxRWCalls
  /\ rw_calls' = rw_calls + 1
  /\ rw_call' = [rw_call EXCEPT ![t] = call]
  /\ rw_pc' = [rw_pc EXCEPT ![t] = IF call \in RWWrites THEN "test" ELSE "read_lock"]
  /\ UNCHANGED <<storage, version, initialized, maxAccepted, everApplied, readers,
                 read_ready, readers_seen>>
  /\ RWFrame

\* init line 38, upsert line 50: the early return, evaluated outside the lock
RWTest(t) ==
  /\ rw_pc[t] = "test"
  /\ LET call == rw_call[t]
         rejects == IF call.op = "init"
                      THEN InitRejects(call.all_data, call.version)
                      ELSE UpsertRejects(call.kind, call.key, call.item, call.version)
     IN  /\ rw_pc' = [rw_pc EXCEPT ![t] = IF rejects THEN "idle" ELSE "write_lock"]
         /\ rw_call' = [rw_call EXCEPT ![t] = IF rejects THEN NoCall ELSE call]
  /\ UNCHANGED <<storage, version, initialized, maxAccepted, everApplied, readers,
                 read_ready, rw_calls, readers_seen>>
  /\ RWFrame

\* ReadWriteLock.write_lock, line 33, and the end of Condition.wait: acquire the lock of
\* the condition
WriteLockAcquire(t) ==
  /\ rw_pc[t] \in {"write_lock", "woken"}
  /\ read_ready = NoThread
  /\ read_ready' = t
  /\ rw_pc' = [rw_pc EXCEPT ![t] = "while_readers"]
  /\ UNCHANGED <<storage, version, initialized, maxAccepted, everApplied, readers,
                 rw_call, rw_calls, readers_seen>>
  /\ RWFrame

\* variant: write_lock() that does not wait for the readers to leave
WriterWaitsNever(r) == FALSE

\* ReadWriteLock.write_lock, line 34: the test of the while loop
WriterWaits(r) == r > 0

\* ReadWriteLock.write_lock, lines 34-35: wait() releases the lock of the condition until
\* a notifyAll; with no reader inside write_lock returns, the lock held
WriteLockWait(t) ==
  /\ rw_pc[t] = "while_readers"
  /\ IF WriterWaits(readers)
       THEN /\ read_ready' = NoThread
            /\ rw_pc' = [rw_pc EXCEPT ![t] = "wait"]
       ELSE /\ read_ready' = read_ready
            /\ rw_pc' = [rw_pc EXCEPT ![t] = "write"]
  /\ UNCHANGED <<storage, version, initialized, maxAccepted, everApplied, readers,
                 rw_call, rw_calls, readers_seen>>
  /\ RWFrame

\* init lines 42-45, upsert lines 54-60: the body of the write
RWWrite(t) ==
  /\ rw_pc[t] = "write"
  /\ LET call == rw_call[t]
     IN  IF call.op = "init"
           THEN /\ storage' = InitStorage(call.all_data)
                /\ initialized' = TRUE
                /\ version' = call.version.val
                /\ maxAccepted' = Max(maxAccepted, call.version.val)
                /\ everApplied' = TRUE
           ELSE IF UpsertApplies(call.kind, call.key, call.version)
                  THEN /\ storage' = [storage EXCEPT ![call.kind][call.key] = call.item]
                       /\ version' = call.version.val
                       /\ initialized' = (initialized \/ InitializedAfterUpsert)
                       /\ maxAccepted' = Max(maxAccepted, call.version.val)
                       /\ everApplied' = TRUE
                  ELSE UNCHANGED <<storage, version, initialized, maxAccepted, everApplied>>
  /\ rw_pc' = [rw_pc EXCEPT ![t] = "release_write_lock"]
  /\ UNCHANGED <<readers, read_ready, rw_call, rw_calls, readers_seen>>
  /\ RWFrame

\* ReadWriteLock.release_write_lock, line 39, and the return of init or upsert
ReleaseWriteLock(t) ==
  /\ rw_pc[t] = "release_write_lock"
  /\ read_ready' = NoThread
  /\ rw_pc' = [rw_pc EXCEPT ![t] = "idle"]
  /\ rw_call' = [rw_call EXCEPT ![t] = NoCall]
  /\ UNCHANGED <<storage, version, initialized, maxAccepted, everApplied, readers,
                 rw_calls, readers_seen>>
  /\ RWFrame

\* ReadWriteLock.read_lock, lines 20-21: one more reader, counted with the lock of the
\* condition held
ReadLock(t) ==
  /\ rw_pc[t] = "read_lock"
  /\ read_ready = NoThread
  /\ readers' = readers + 1
  /\ readers_seen' = Max(readers_seen, readers + 1)
  /\ rw_pc' = [rw_pc EXCEPT ![t] = "read"]
  /\ UNCHANGED <<storage, version, initialized, maxAccepted, everApplied, read_ready,
                 rw_call, rw_calls>>
  /\ RWFrame

\* get lines 21-25, latest_version line 76: the body of the read
RWRead(t) ==
  /\ rw_pc[t] = "read"
  /\ rw_pc' = [rw_pc EXCEPT ![t] = "release_read_lock"]
  /\ UNCHANGED <<storage, version, initialized, maxAccepted, everApplied, readers,
                 read_ready, rw_call, rw_calls, readers_seen>>
  /\ RWFrame

\* ReadWriteLock.release_read_lock, lines 25-28, and the return of the read: the last
\* reader to leave wakes every thread waiting in write_lock
ReleaseReadLock(t) ==
  /\ rw_pc[t] = "release_read_lock"
  /\ read_ready = NoThread
  /\ LET left == IF readers > 0 THEN readers - 1 ELSE 0
     IN  /\ readers' = left
         /\ rw_pc' = [u \in Threads |->
                        IF u = t THEN "idle"
                        ELSE IF left = 0 /\ rw_pc[u] = "wait" THEN "woken"
                        ELSE rw_pc[u]]
  /\ rw_call' = [rw_call EXCEPT ![t] = NoCall]
  /\ UNCHANGED <<storage, version, initialized, maxAccepted, everApplied, read_ready,
                 rw_calls, readers_seen>>
  /\ RWFrame

InitRW ==
  /\ rw_pc = [t \in Threads |-> "idle"]
  /\ rw_call = [t \in Threads |-> NoCall]
  /\ rw_calls = 0
  /\ readers = 0
  /\ read_ready = NoThread
  /\ readers_seen = 0

NextRW ==
  \/ \E t \in Threads, call \in RWWrites \cup RWReads : RWCall(t, call)
  \/ \E t \in Threads : RWTest(t)
  \/ \E t \in Threads : WriteLockAcquire(t)
  \/ \E t \in Threads : WriteLockWait(t)
  \/ \E t \in Threads : RWWrite(t)
  \/ \E t \in Threads : ReleaseWriteLock(t)
  \/ \E t \in Threads : ReadLock(t)
  \/ \E t \in Threads : RWRead(t)
  \/ \E t \in Threads : ReleaseReadLock(t)

(***************************************************************************)
(* BackoffAndJitterStrategy (utils/exponential_backoff_jitter_strategy.py) *)
(* as Streaming.run uses it: set_good_run() in _init_wsapp, next_delay()   *)
(* after run_forever. Delays are in quarter seconds, time() in seconds.    *)
(***************************************************************************)
\* max_delay_in_seconds = 60.0, in quarter seconds
MAX_DELAY == 240

\* reset_interval_in_seconds = 60
RESET_INTERVAL == 60

\* the smallest retry_times whose 2 ** retry_times no float holds
FLOAT_OVERFLOW == 1024

\* config.streaming_first_retry_delay in quarter seconds: 1.0, the default, and 40.0
FirstDelays == {4, 160}

\* how long a connection attempt or a connection can go on, in seconds
Elapses == {30, 61}

\* random.random(), in halves
Randoms == {0, 1}

NoStrategy == [none |-> TRUE]

NoDelay == [none |-> TRUE]

BackoffFrame ==
  UNCHANGED <<storeVars, statusVars, eventVars, providerVars, evalVars, clientVars,
              stopVars, streamVars, noticeVars, offVars, rwVars, patchVars>>

\* Streaming.__init__, line 84: BackoffAndJitterStrategy(config.streaming_first_retry_delay)
StrategyNew(first_delay_in_seconds) ==
  /\ bk_pc = "new"
  /\ strategy' = [retry_times |-> 0, first_delay |-> first_delay_in_seconds,
                  latest_good_run |-> 0]
  /\ bk_pc' = "loop"
  /\ UNCHANGED <<bk_now, opened_at, delay>>
  /\ BackoffFrame

\* Streaming._init_wsapp, line 112: set_good_run() stores time(); run_forever begins
SetGoodRun ==
  /\ bk_pc = "loop"
  /\ strategy' = [strategy EXCEPT !.latest_good_run = bk_now]
  /\ bk_pc' = "connecting"
  /\ opened_at' = 0
  /\ delay' = NoDelay
  /\ UNCHANGED bk_now
  /\ BackoffFrame

\* the server accepts the connection: _on_open
ConnectionOpens ==
  /\ bk_pc = "connecting"
  /\ bk_pc' = "open"
  /\ opened_at' = bk_now
  /\ UNCHANGED <<strategy, bk_now, delay>>
  /\ BackoffFrame

\* time passes while run_forever is at work
Elapse(seconds) ==
  /\ bk_pc \in {"connecting", "open"}
  /\ bk_now + seconds <= MaxClock
  /\ bk_now' = bk_now + seconds
  /\ UNCHANGED <<strategy, bk_pc, opened_at, delay>>
  /\ BackoffFrame

\* first_delay * 2 ** n as far as the comparison with max_delay needs it
RECURSIVE Doubled(_, _)
Doubled(d, n) == IF n = 0 \/ d > MAX_DELAY THEN d ELSE Doubled(2 * d, n - 1)

\* __count_backoff_time, lines 35-36
CountBackoffTime(n) ==
  LET d == Doubled(strategy.first_delay, n)
  IN  IF d <= MAX_DELAY THEN d ELSE MAX_DELAY

\* __count_backoff_time, line 35: the int 2 ** retry_times is turned into a float for
\* the product with the float first_delay, which raises OverflowError from 2 ** 1024 on
CountBackoffRaises(n) == n >= FLOAT_OVERFLOW

\* __count_jitter_time, line 32, with jitter_ratio = 0.5, plus backoff / 2 (line 46)
CountDelay(backoff, random) == (((backoff \div 2) * random) \div 2) + (backoff \div 2)

\* next_delay, line 40: the test that resets retry_times
ResetsRetryTimes ==
  /\ strategy.latest_good_run > 0
  /\ RESET_INTERVAL > 0
  /\ bk_now - strategy.latest_good_run > RESET_INTERVAL

\* Streaming.run, line 127: run_forever has returned and next_delay() is called; before
\* is retry_times at the call, n the retry_times the backoff is computed from
NextDelay(random) ==
  /\ bk_pc \in {"connecting", "open"}
  /\ LET n == IF ResetsRetryTimes THEN 0 ELSE strategy.retry_times
         backoff == CountBackoffTime(n)
     IN  IF CountBackoffRaises(n)
           THEN /\ strategy' = [strategy EXCEPT !.retry_times = n]
                /\ delay' = [raised |-> TRUE, before |-> strategy.retry_times, n |-> n,
                             good_run |-> strategy.latest_good_run,
                             opened_at |-> opened_at, at |-> bk_now]
           ELSE /\ strategy' = [strategy EXCEPT !.retry_times = n + 1,
                                                !.latest_good_run = 0]
                /\ delay' = [raised |-> FALSE, before |-> strategy.retry_times, n |-> n,
                             good_run |-> strategy.latest_good_run,
                             opened_at |-> opened_at, at |-> bk_now,
                             backoff |-> backoff, delay |-> CountDelay(backoff, random)]
  /\ bk_pc' = "loop"
  /\ UNCHANGED <<bk_now, opened_at>>
  /\ BackoffFrame

InitBackoff ==
  /\ strategy = NoStrategy
  /\ bk_pc = "new"
  /\ bk_now = 1
  /\ opened_at = 0
  /\ delay = NoDelay

NextBackoff ==
  \/ \E d0 \in FirstDelays : StrategyNew(d0)
  \/ SetGoodRun
  \/ ConnectionOpens
  \/ \E seconds \in Elapses : Elapse(seconds)
  \/ \E random \in Randoms : NextDelay(random)

Init ==
  /\ InitStore /\ InitStatus /\ InitEvents /\ InitProvider /\ InitEval /\ InitClient
  /\ InitStop /\ InitStreaming /\ InitNotice /\ InitOffline /\ InitRW
  /\ patch = NoPatch
  /\ InitBackoff

SpecStore == Init /\ [][NextStore]_vars

SpecStatus == Init /\ [][NextStatus]_vars

SpecEvents == Init /\ [][NextEvents]_vars

\* the dispatcher thread, the pool's worker threads and the thread inside stop() are
\* scheduled, and every sender call returns
EventsFairness ==
  /\ WF_vars(StopPutShutdown)
  /\ WF_vars(StopReturn)
  /\ WF_vars(DrainInbox)
  /\ WF_vars(ProcessEvent)
  /\ WF_vars(ProcessFlush)
  /\ WF_vars(ProcessShutdown)
  /\ WF_vars(\E raised \in BOOLEAN : FinishShutdown(raised))
  /\ WF_vars(\E payload \in runners, failed \in 0..1 : RunFlushPayload(payload, failed))

SpecFlush == Init /\ [][NextFlush]_vars

SpecWorkers == Init /\ [][NextWorkers]_vars

SpecBackoff == Init /\ [][NextBackoff]_vars

\* a thread that has the lock, or that notify_all() has woken, goes on
SpecWaitersFair ==
  /\ Init
  /\ [][NextWaiters]_vars
  /\ \A w \in Waiters : WF_vars(WaitCheck(w))

SpecEventsFair == Init /\ [][NextEvents]_vars /\ EventsFairness

SpecProvider == Init /\ [][NextProvider]_vars

SpecEval == Init /\ [][NextEval]_vars

SpecClient == Init /\ [][NextClient]_vars

SpecStop == Init /\ [][NextStop]_vars

SpecStreaming == Init /\ [][NextStreaming]_vars

SpecNotice == Init /\ [][NextNotice]_vars

SpecOffline == Init /\ [][NextOffline]_vars

SpecRW == Init /\ [][NextRW]_vars

\* the streaming thread alone, the upsert calls of every patch recorded
NextPatch ==
  \/ StreamingLoopTest
  \/ StreamingInitWsapp
  \/ \E msg \in Messages, raises_at \in 0..Cardinality(KeysOf("featureFlags")) :
       OnMessageRecorded(msg, raises_at)
  \/ \E by_server \in BOOLEAN, code \in ServerCloseCodes : StreamingOnClose(by_server, code)
  \/ StreamingOnCloseState
  \/ \E reset \in BOOLEAN : StreamingAfterRun(reset)
  \/ StreamingFinally

SpecPatch == Init /\ [][NextPatch]_vars

\* the broadcaster's thread is scheduled
SpecNoticeFair ==
  /\ Init /\ [][NextNotice]_vars
  /\ WF_vars(\E raising \in SUBSET Listeners : NoticeProcess(raising))


(***************************************************************************)
(* Properties of InMemoryDataStorage, under SpecStore.                     *)
(***************************************************************************)
\* a call of op is running in this step
Runs(op) == req.op = op /\ ~done /\ done'

\* an upsert call with a kind, a key, an item and an int version
WellFormedUpsert(r) ==
  r.kind # NoneKind /\ r.key # NoKey /\ r.item # NoItem /\ r.version.isInt

\* the keys of kind that hold an entity in the store st
StoredKeys(st, kind) == {k \in KeysOf(kind) : st[kind][k] # NoItem}

\* C1 (as claimed): an upsert with a kind, a key, an item and an int version (>= 1, as
\* every timestamp is) is applied (its item becomes the entity stored under its key)
\* whenever the key holds no entity or holds one whose timestamp is < version, whatever
\* the store's latest_version is.
C1_UpsertGatedByKeyTimestampOnly ==
  [][(Runs("upsert") /\ WellFormedUpsert(req) /\ req.version.val >= 1
        /\ (storage[req.kind][req.key] = NoItem
              \/ storage[req.kind][req.key].timestamp < req.version.val))
      => storage'[req.kind][req.key] = req.item]_vars

\* C1 (amended): upsert gates on the store's latest_version first and on the key's own
\* timestamp second: with a kind, a key, an item and an int version it is applied (the
\* item is stored under the key and latest_version becomes the version) when version >
\* latest_version and the key holds no entity or one whose timestamp is < version; when
\* version <= latest_version it is ignored, also for a key that holds no entity.
C1_UpsertGatedByLatestVersionAndKeyTimestamp ==
  [][(Runs("upsert") /\ WellFormedUpsert(req)) =>
       /\ (req.version.val > version
             /\ (storage[req.kind][req.key] = NoItem
                   \/ storage[req.kind][req.key].timestamp < req.version.val))
            => (storage'[req.kind][req.key] = req.item /\ version' = req.version.val)
       /\ req.version.val <= version => UNCHANGED <<storage, version, initialized>>]_vars

\* C1 witness: an upsert with a version >= 1 for a key that holds no entity was ignored,
\* as another key had been written with a version at least as high.
C1_Witness ==
  /\ req.op = "upsert" /\ done /\ WellFormedUpsert(req)
  /\ req.version.val >= 1 /\ req.version.val <= version
  /\ storage[req.kind][req.key] = NoItem
  /\ \E k \in KeysOf(req.kind) : storage[req.kind][k] # NoItem

\* C2: latest_version never decreases in a step, and it is always the largest version
\* of the writes applied so far (0 before any).
C2_LatestVersionMonotone ==
  [][version' >= version /\ version' = maxAccepted']_vars

\* C2 witness: a write was ignored by a store that had applied a write with version > 1.
C2_Witness ==
  /\ req.op \in {"init", "upsert"} /\ done
  /\ version > 1 /\ version = maxAccepted
  /\ req.version.isInt /\ req.version.val < version

\* C6: an init with a null or empty payload, a version that is not an int, or a version
\* <= latest_version changes neither the entities, nor latest_version, nor initialized.
C6_RejectedInitIsNoOp ==
  [][(Runs("init")
        /\ (req.all_data.null \/ ~req.version.isInt \/ req.version.val <= version))
      => UNCHANGED <<storage, version, initialized>>]_vars

\* C6 witness: an init with a payload other than the store's content and a version
\* equal to the latest one has run on an initialized store.
C6_Witness ==
  /\ req.op = "init" /\ done
  /\ ~req.all_data.null /\ req.version.isInt
  /\ req.version.val = version /\ initialized
  /\ req.all_data.items # storage

\* C7: an upsert with a missing kind, key or item, a version that is not an int, or a
\* version <= the timestamp of the entity stored under its key changes neither the
\* entities, nor latest_version, nor initialized.
C7_RejectedUpsertIsNoOp ==
  [][(Runs("upsert")
        /\ (~WellFormedUpsert(req)
              \/ (storage[req.kind][req.key] # NoItem
                    /\ req.version.val <= storage[req.kind][req.key].timestamp)))
      => UNCHANGED <<storage, version, initialized>>]_vars

\* C7 witness: an upsert whose version is above latest_version and not above the
\* timestamp of the entity stored under its key has run.
C7_Witness ==
  /\ req.op = "upsert" /\ done /\ WellFormedUpsert(req)
  /\ storage[req.kind][req.key] # NoItem
  /\ req.item # storage[req.kind][req.key]
  /\ req.version.val <= storage[req.kind][req.key].timestamp
  /\ req.version.val > version

\* C8: get returns nothing exactly when the key is absent or its entity is archived, and
\* otherwise the stored entity; get_all returns exactly the non-archived entities of the
\* kind; no returned entity is archived; a read leaves the store, tombstones included,
\* as it is.
C8_ReadersNeverSeeArchived ==
  /\ [](/\ (req.op = "get" /\ done) =>
             /\ (res.item = NoItem) <=>
                  (storage[req.kind][req.key] = NoItem \/ storage[req.kind][req.key].isArchived)
             /\ res.item # NoItem =>
                  (res.item = storage[req.kind][req.key] /\ ~res.item.isArchived)
        /\ (req.op = "get_all" /\ done) =>
             /\ {p[1] : p \in res.items} =
                  {k \in StoredKeys(storage, req.kind) : ~storage[req.kind][k].isArchived}
             /\ \A p \in res.items : p[2] = storage[req.kind][p[1]] /\ ~p[2].isArchived)
  /\ [][(Runs("get") \/ Runs("get_all")) => UNCHANGED <<storage, version, initialized>>]_vars

\* C8 witness: a get of a key that holds an archived entity has returned nothing, and the
\* tombstone is in the store with its timestamp.
C8_Witness ==
  /\ req.op = "get" /\ done /\ res.item = NoItem
  /\ storage[req.kind][req.key] # NoItem
  /\ storage[req.kind][req.key].isArchived
  /\ storage[req.kind][req.key].timestamp = MaxVersion

\* C9: initialized is false until a first init or upsert is applied, true from the step
\* that applies it, and never false again.
C9_InitializedOnceApplied ==
  /\ [](initialized <=> everApplied)
  /\ [][initialized => initialized']_vars

\* C9 witness: one entity is stored, an init that came later was ignored, and
\* initialized is still true.
C9_Witness ==
  /\ initialized /\ req.op = "init" /\ done
  /\ \E c \in Cats : Cardinality(StoredKeys(storage, c)) = 1
  /\ \A c \in Cats : Cardinality(StoredKeys(storage, c)) <= 1
  /\ req.all_data.items # storage

\* C10: an init with a payload, an int version and version > latest_version replaces the
\* whole content: the keys stored in every category are those of the payload, each with
\* the payload's entity, latest_version is the init's version and initialized is true.
C10_AcceptedInitReplacesAll ==
  [][(Runs("init") /\ ~req.all_data.null /\ req.version.isInt /\ req.version.val > version)
      => /\ \A c \in Cats :
              /\ StoredKeys(storage', c) = StoredKeys(req.all_data.items, c)
              /\ \A k \in KeysOf(c) : storage'[c][k] = req.all_data.items[c][k]
         /\ version' = req.version.val
         /\ initialized']_vars

\* C10 witness: an init with the highest version has been accepted with a payload that
\* holds one key: the store holds that key and nothing else.
C10_Witness ==
  /\ req.op = "init" /\ done /\ ~req.all_data.null /\ req.version.isInt
  /\ version = req.version.val /\ version = MaxVersion
  /\ storage = req.all_data.items
  /\ StoredKeys(storage, "featureFlags") = {"f2"}
  /\ StoredKeys(storage, "segments") = {}


(***************************************************************************)
(* Properties of DataUpdateStatusProviderImpl, under SpecStatus.           *)
(***************************************************************************)
\* the timeout argument asks for a timed wait
Timed(timeout) == ~timeout.isNone /\ timeout.val > 0

\* C4 as stated: wait_for_OKState returns true exactly when the state has been OK at
\* some time between the call and the timeout; it returns false when the state is OFF;
\* without a timeout (<= 0 or None) it returns only on OK or OFF.
C4_TrueIffOKWithinTimeout ==
  \A w \in Waiters : waiter[w].pc = "done" =>
    /\ waiter[w].result <=> waiter[w].okWithin
    /\ waiter[w].seen = "OFF" => ~waiter[w].result
    /\ ~Timed(waiter[w].timeout) => waiter[w].seen \in {"OK", "OFF"}

\* C4, amended: wait_for_OKState returns true exactly when one of its tests of the
\* state (at the call and after each wake-up) finds it OK, and false at once when a
\* test finds it OFF; a test that finds OK or OFF returns without waiting; on any
\* other state it returns (false) only if the timeout is > 0 and the timeout has
\* passed since the call; with a timeout <= 0 or None it returns only on OK or OFF.
C4_WaitForOKState ==
  /\ [](\A w \in Waiters : waiter[w].pc = "done" =>
          /\ waiter[w].result <=> (waiter[w].seen = "OK")
          /\ waiter[w].seen \notin {"OK", "OFF"} =>
               /\ Timed(waiter[w].timeout)
               /\ waiter[w].at >= waiter[w].called + waiter[w].timeout.val)
  /\ [][\A w \in Waiters :
          (waiter[w].pc = "check" /\ waiter'[w].pc # "check"
             /\ current_state.state_type \in {"OK", "OFF"})
            => /\ waiter'[w].pc = "done"
               /\ waiter'[w].at = now
               /\ waiter'[w].result = (current_state.state_type = "OK")]_vars

\* C4 witness: a timed wait has returned false on its timeout although the state was OK
\* for a while after the call: no test of the waiter fell in that while.
C4_Witness ==
  \E w \in Waiters :
    /\ waiter[w].pc = "done" /\ ~waiter[w].result
    /\ waiter[w].okWithin
    /\ waiter[w].seen = "INTERRUPTED"
    /\ Timed(waiter[w].timeout)
    /\ waiter[w].at >= waiter[w].called + waiter[w].timeout.val

\* C5: no update_state leads from INITIALIZING to INTERRUPTED, and the state type is
\* INTERRUPTED only if it has been OK before.
C5_InterruptedOnlyAfterOK ==
  /\ [][current_state.state_type = "INITIALIZING"
          => current_state'.state_type # "INTERRUPTED"]_vars
  /\ [](current_state.state_type = "INTERRUPTED" => everOK)

(***************************************************************************)
(* Properties of DefaultEventProcessor, under SpecEvents.                  *)
(***************************************************************************)
\* the events passed to the sender so far
PostedEvents == UNION {Range(posted[i].events) : i \in 1..Len(posted)}

\* C3: when stop() has returned, every shippable event that send_event had put in the
\* inbox has been passed to the sender.
C3_StopDeliversPendingEvents ==
  stop_pc = "returned" =>
    \A e \in sent_events : e.is_send_event => e \in PostedEvents

RolloutIds(rollout_variations) ==
  {rollout_variations.variations[i].id : i \in 1..Len(rollout_variations.variations)}

\* the evaluation has returned exactly one variation of the flag
OneVariation(er) ==
  er.kind = "result" /\ er.id \in VariationIds /\ er.value = VariationMap[er.id]

\* C13: for every flag whose rollout intervals partition [0,1] into half-open ranges,
\* every valid user and every bucket value the hash produces, Evaluator.evaluate
\* returns exactly one variation of the flag; it never returns no result.
C13_EvaluatorTotality ==
  ev.pc = "done" => OneVariation(ev.er)

\* C14: evaluation is first-match-wins in the order disabled, individual target, rules
\* in list order, fallthrough: a disabled flag yields disabledVariationId with reason
\* 'flag off' and is_send_to_expt false; otherwise a user listed in a targetUsers entry
\* yields that entry's variation with 'target match' and exptIncludeAllTargets;
\* otherwise the first rule whose conditions all match decides with 'rule match';
\* otherwise the fallthrough decides with 'fall through all rules'.
C14_FirstMatchWins ==
  ev.pc = "done" =>
    LET flag == ev.flag
        user == ev.user
        er == ev.er
        targets == {i \in 1..Len(flag.targetUsers) : user \in flag.targetUsers[i].keyIds}
        matched == {i \in 1..Len(flag.rules) : MatchAnyRule(user, flag.rules[i])}
    IN  /\ OneVariation(er)
        /\ IF ~flag.isEnabled
             THEN /\ er.id = flag.disabledVariationId
                  /\ er.reason = REASON_FLAG_OFF
                  /\ ~er.is_send_to_expt
           ELSE IF targets # {}
             THEN /\ er.id \in {flag.targetUsers[i].variationId : i \in targets}
                  /\ er.reason = REASON_TARGET_MATCH
                  /\ er.is_send_to_expt = flag.exptIncludeAllTargets
           ELSE IF matched # {}
             THEN /\ er.id \in RolloutIds(flag.rules[First(matched)])
                  /\ er.reason = REASON_RULE_MATCH
           ELSE /\ er.id \in RolloutIds(flag.fallthrough)
                /\ er.reason = REASON_FALLTHROUGH

(***************************************************************************)
(* Properties of FBClient.variation / variation_detail, under SpecClient.  *)
(***************************************************************************)
\* C12: whatever the store holds, whatever the flag key and the user argument are,
\* variation and variation_detail called with a supported default return a result:
\* the evaluated variation, or the default value with one of the reasons 'client not
\* ready', 'flag not found', 'user not specified', 'error in evaluation'; nothing is
\* thrown to the caller.
C12_EvaluationErrorsNeverThrown ==
  vcall.pc = "done" =>
    /\ vcall.out.kind = "returned"
    /\ \/ /\ vcall.out.reason \in {REASON_FLAG_OFF, REASON_TARGET_MATCH, REASON_RULE_MATCH,
                                   REASON_FALLTHROUGH}
          /\ vcall.out.variation \in {CastVariationByFlagType("boolean", VariationMap[id]) :
                                        id \in VariationIds}
       \/ /\ vcall.out.reason \in {REASON_CLIENT_NOT_READY, REASON_FLAG_NOT_FOUND,
                                   REASON_USER_NOT_SPECIFIED, REASON_ERROR}
          /\ vcall.out.variation =
               CastVariationByFlagType(vcall.args.default.type, vcall.args.default.value)


\* C15: DefaultEventProcessor.stop() returns only after the dispatcher has processed
\* the SHUTDOWN message: the dispatcher thread has exited, every flush runner has
\* finished and sender.stop() has been called, whether it raised or not; and a call of
\* stop() that has closed the processor eventually returns, every sender call returning
C15_StopIsRendezvous ==
  /\ [](stop_pc = "returned" =>
         /\ d_pc = "exited"
         /\ runners = {}
         /\ permits = MAX_FLUSH_WORKERS_NUMBER
         /\ sender_stopped)
  /\ [](sender_stop_raised => sender_stopped /\ d_pc = "exited")
  /\ (stop_pc \in {"put_shutdown", "wait_complete"} ~> stop_pc = "returned")

\* stop() has returned after a flush was posted, and sender.stop() has raised
C15_Witness ==
  /\ stop_pc = "returned"
  /\ sender_stop_raised
  /\ posted # <<>>


\* C16: once DefaultEventProcessor.stop() has returned the processor is closed, and
\* every later call of send_event, flush or stop leaves the inbox, the dispatcher's
\* buffer and the payloads the sender has received as they are
C16_NoOpsAfterStop ==
  /\ [](stop_pc = "returned" => ep_closed /\ FlushedInbox(ep_closed) = inbox)
  /\ [][stop_pc = "returned" =>
           /\ inbox' = inbox
           /\ msgs' = msgs
           /\ buffer' = buffer
           /\ runners' = runners
           /\ posted' = posted
           /\ sent_events' = sent_events
           /\ stop_pc' = "returned"]_vars

\* send_event, flush and stop have all been called after stop() had returned
C16_Witness ==
  /\ stop_pc = "returned"
  /\ late_calls = {"send_event", "flush", "stop"}


\* the types of the messages that are not SHUTDOWN
DroppableTypes == {"FLAGS", "METRICS", "USER", "FLUSH"}

\* C17: put_nowait() of a FLAGS, METRICS, USER or FLUSH message on a full inbox leaves
\* the inbox as it is and its producer goes on (flush() is enabled, nothing but the
\* dispatcher changes a full inbox); the thread that puts SHUTDOWN leaves the put only
\* by appending the message to an inbox that has a free slot, the message is then in
\* the inbox until the dispatcher takes it, and the put always ends
C17_FullInbox ==
  /\ [](Len(inbox) <= InboxCapacity)
  /\ [](InboxFull =>
         /\ \A t \in DroppableTypes : PutNoWait(EventMessage(t, NoEvent)) = inbox
         /\ ENABLED Flush)
  /\ [][InboxFull => inbox' = inbox \/ (msgs = <<>> /\ msgs' \o inbox' = inbox)]_vars
  /\ [][stop_pc = "put_shutdown" /\ stop_pc' # "put_shutdown" =>
           /\ ~InboxFull
           /\ inbox' = Append(inbox, EventMessage("SHUTDOWN", NoEvent))
           /\ stop_pc' = "wait_complete"]_vars
  /\ [](stop_pc = "wait_complete" =>
         \/ EventMessage("SHUTDOWN", NoEvent) \in Range(inbox) \cup Range(msgs)
         \/ d_pc \in {"shutdown", "exited"})
  /\ (stop_pc = "put_shutdown" ~> stop_pc = "wait_complete")

\* a message that is not SHUTDOWN was dropped on a full inbox, and stop() has returned
\* after its put_nowait() of SHUTDOWN had failed
C17_Witness ==
  /\ "SHUTDOWN" \in full_puts
  /\ full_puts \cap DroppableTypes # {}
  /\ stop_pc = "returned"


\* the events handed to a flush runner, at work or finished
HandedOver ==
  UNION {Range(payload) : payload \in runners}
    \cup UNION {Range(posted[i].events) : i \in 1..Len(posted)}

\* C18: the dispatcher, processing a FLUSH message with a non-empty buffer, hands the
\* whole buffer to one new runner and empties it if a worker slot is free, and leaves
\* buffer and runners as they are if all MAX_FLUSH_WORKERS_NUMBER slots are busy; at
\* most that many runners are at work; the buffer only grows at its end until it is
\* handed over, so the events a FLUSH retained stay in the buffer, or have been handed
\* over in one payload with the events buffered after them
C18_FlushHandsOverOrRetains ==
  /\ [](permits >= 0 /\ permits = MAX_FLUSH_WORKERS_NUMBER - Cardinality(runners))
  /\ [][msgs # <<>> /\ Head(msgs).type = "FLUSH" /\ msgs' = Tail(msgs) /\ buffer # <<>> =>
           IF permits > 0
             THEN /\ buffer \notin runners
                  /\ runners' = runners \cup {buffer}
                  /\ buffer' = <<>>
             ELSE /\ buffer' = buffer
                  /\ runners' = runners
                  /\ posted' = posted]_vars
  /\ [][\/ buffer' = <<>>
        \/ /\ Len(buffer') >= Len(buffer)
           /\ SubSeq(buffer', 1, Len(buffer)) = buffer]_vars
  /\ [](retained \subseteq Range(buffer) \cup HandedOver)
  /\ [](Range(buffer) \cap HandedOver = {})

\* a payload the sender has received holds an event that a FLUSH had left in the buffer,
\* all workers being busy, together with an event buffered later
C18_Witness ==
  \E i \in 1..Len(posted) :
    /\ posted[i].ok
    /\ Range(posted[i].events) \cap retained # {}
    /\ Range(posted[i].events) \ retained # {}


\* the events of the requests the sender has failed
FailedEvents == UNION {Range(posted[i].events) : i \in {k \in 1..Len(posted) : ~posted[k].ok}}

\* C19: the step in which a flush runner ends, its request failed or not, releases its
\* worker slot, creates no runner and leaves inbox, buffer and dispatcher as they are;
\* the events of a failed request are in no inbox, buffer, runner or other request
\* afterwards, and the slots in use are those of the runners at work
C19_SenderFailureLosesOneFlush ==
  /\ [][Len(posted') > Len(posted) =>
           /\ permits' = permits + 1
           /\ \E payload \in runners :
                /\ runners' = runners \ {payload}
                /\ SubSeq(posted', 1, Len(posted)) = posted
                /\ \A k \in (Len(posted) + 1)..Len(posted') :
                     Range(posted'[k].events) \subseteq Range(payload)
           /\ inbox' = inbox /\ msgs' = msgs /\ buffer' = buffer
           /\ d_pc' = d_pc /\ d_closed' = d_closed]_vars
  /\ [](permits = MAX_FLUSH_WORKERS_NUMBER - Cardinality(runners))
  /\ [](\A e \in FailedEvents :
           /\ e \notin Range(buffer)
           /\ \A payload \in runners : e \notin Range(payload)
           /\ \A m \in Range(inbox) \cup Range(msgs) : m.event # e
           /\ Cardinality({i \in 1..Len(posted) : e \in Range(posted[i].events)}) = 1)

\* the sender has failed the request of one flush and accepted the request of a later
\* flush, and every worker slot is free again
C19_Witness ==
  /\ \E i, j \in 1..Len(posted) : i < j /\ ~posted[i].ok /\ posted[j].ok
  /\ permits = MAX_FLUSH_WORKERS_NUMBER


\* the streaming thread has ended, or is on its way out: it is not about to connect, and
\* the connection it still runs has been told to close
StreamingStopped ==
  /\ force_close
  /\ s_pc # "init"
  /\ s_pc = "run_forever" => wsapp = "closing"

\* C20: when FBClient.stop() has returned, the streaming worker, its ping task, the
\* event processor and the notice broadcaster are stopped; no call of stop() raises; a
\* second stop() never waits for another thread, and its steps change nothing
C20_StopIdempotentAndPropagates ==
  /\ [](cs_pc = "returned" =>
         /\ StreamingStopped
         /\ ping_stopped
         /\ ep_closed /\ d_pc = "exited" /\ sender_stopped
         /\ b_closed /\ b_pc = "exited")
  /\ [](cs_pc # "raised")
  /\ [](cs_calls > 1 =>
         /\ cs_pc = "event_processor_wait" => stop_pc = "returned"
         /\ cs_pc = "join" => b_pc = "exited")
  /\ [][cs_calls > 1 /\ cs_pc' # cs_pc =>
           UNCHANGED <<force_close, running, wsapp, self_closed, s_pc, ping_stopped, b_closed,
                       b_pc, ep_closed, task_stopped, inbox, stop_pc, d_pc, sender_stopped,
                       current_state>>]_vars

(***************************************************************************)
(* Properties of the streaming pipeline, under SpecStreaming.              *)
(***************************************************************************)

\* a FlagChangedNotice with the flag key has been passed to broadcast
Noticed(bs, flag_key) ==
  \E i \in DOMAIN bs : bs[i].notice_type = FLAG_CHANGE_NOTICE_TYPE /\ bs[i].content = flag_key

\* C21: when a full or patch message has been processed successfully and has changed
\* what the store holds for flag F, a FlagChangedNotice with flag_key F has been
\* broadcast on the notice broadcaster.
C21_NoticeForEveryFlagChange ==
  [][\A f \in KeysOf("featureFlags") :
       last_msg'.outcome = "ok" /\ storage'["featureFlags"][f] # storage["featureFlags"][f]
         => Noticed(broadcasts', f)]_vars

\* C25: once the state type is OFF no step of the streaming pipeline changes it, and
\* the streaming thread makes no further connection attempt.
C25_OffIsPermanent ==
  [][current_state.state_type = "OFF" =>
       /\ current_state'.state_type = "OFF"
       /\ ~(s_pc = "init" /\ s_pc' = "run_forever")]_vars

\* Streaming.stop() has returned to FBClient.stop
StreamingStopReturned == cs_pc = "event_processor"

\* C26: once Streaming.stop() has been called the streaming thread opens no new
\* connection; when stop() has returned the ping task is stopped and no connection is
\* left open, a connection that was open having been closed with code 1000; stop()
\* does not raise.
C26_StopEndsStreaming ==
  /\ [][force_close => ~(s_pc = "init" /\ s_pc' = "run_forever")]_vars
  /\ [][wsapp = "open" /\ cs_pc = "streaming_close" /\ cs_pc' # cs_pc =>
          wsapp' = "closing" /\ close_code' = WS_NORMAL_CLOSE]_vars
  /\ [](StreamingStopReturned => ping_stopped /\ wsapp # "open")
  /\ [](cs_pc # "raised")

\* C27: when the processing of a well-formed data-sync message fails, in the store or
\* in the conversion of the payload, the socket is closed with code 1001 and the
\* connection is marked for a reconnection.
C27_ProcessingFailureReconnects ==
  [][(last_msg' # last_msg /\ last_msg'.kind = "data-sync"
        /\ last_msg'.outcome \in {"store_failed", "convert_error"})
       => /\ wsapp' = "closing"
          /\ close_code' = WS_GOING_AWAY_CLOSE
          /\ self_closed' = SelfClosed(TRUE, TRUE, NoState)]_vars

\* C30: when a full or patch message has been processed successfully the state is OK
\* and ready is set; _on_process_data sets ready at most once, and no step clears it.
C30_ReadyOnceAndOK ==
  /\ [][last_msg' # last_msg /\ last_msg'.outcome = "ok"
          => current_state'.state_type = "OK" /\ ready']_vars
  /\ [](ready_sets <= 1)
  /\ [][ready => ready']_vars

\* ready was set by a message; since then a later message has failed in the store and
\* the thread has reconnected, ready still set
C30_Witness ==
  /\ ready /\ ready_sets = 1
  /\ current_state.state_type = "INTERRUPTED"
  /\ current_state.error_track \in {DATA_STORAGE_INIT_ERROR, DATA_STORAGE_UPDATE_ERROR}
  /\ retry_times > 0
  /\ s_pc = "run_forever" /\ wsapp = "open"

(***************************************************************************)
(* Properties of NoticeBroadcater, under SpecNotice.                       *)
(***************************************************************************)

\* the number of registrations of the listener in the list
Count(lst, listener) == Cardinality({j \in DOMAIN lst : lst[j] = listener})

\* the calls made for the notice with the given id
CallsFor(id) == SelectSeq(calls, LAMBDA c : c.notice = id)

C23_BadListenerIsolated ==
  /\ [][Len(notice_queue') < Len(notice_queue) =>
          LET regs == listeners[Head(notice_queue).notice_type]
          IN  \A j \in DOMAIN regs :
                (\E h \in 1..(j - 1) : /\ Len(calls') >= Len(calls) + h
                                        /\ calls'[Len(calls) + h].raised)
                  => /\ Len(calls') >= Len(calls) + j
                     /\ calls'[Len(calls) + j].listener = regs[j]
                     /\ calls'[Len(calls) + j].notice = Head(notice_queue).id]_vars
  /\ [][b_pc = "run" /\ b_pc' # "run" => b_closed]_vars
  /\ \A k \in 1..MaxNotices :
       (Len(broadcasts) >= k) ~> (Len(broadcasts) - Len(notice_queue) >= k \/ b_pc = "exited")

\* a listener has raised on a notice, another listener was called with that notice after
\* it, and a later notice was dispatched too
C23_Witness ==
  \E i, j, k \in DOMAIN calls :
    /\ i < j /\ j < k
    /\ calls[i].raised
    /\ calls[j].notice = calls[i].notice /\ calls[j].listener # calls[i].listener
    /\ calls[k].notice > calls[i].notice

(***************************************************************************)
(* Properties of the offline client, under SpecOffline.                    *)
(***************************************************************************)

\* the offline client is initialized once built: ready is set, the state is OK and
\* wait_for_OKState returns true
OfflineStarted ==
  o_pc = "started" /\ is_offline =>
    /\ ready
    /\ current_state.state_type = "OK"
    /\ \A w \in Waiters : waiter[w].pc = "done" => waiter[w].result

\* initialize_from_external_json on a client that is not offline returns false and
\* changes neither the store nor the state
NotOfflineCallChangesNothing ==
  o_call.pc = "idle" /\ o_call'.pc = "returned" /\ ~is_offline =>
    /\ o_call'.result = "False"
    /\ UNCHANGED <<storage, version, initialized, current_state>>

Writing == {t \in Threads : rw_pc[t] \in {"write", "release_write_lock"}}

\* the threads inside the read lock: read_lock has returned, release_read_lock has not
Reading == {t \in Threads : rw_pc[t] \in {"read", "release_read_lock"}}

AllReturned == \A t \in Threads : rw_pc[t] = "idle"

\* C28: under any interleaving of concurrent init and upsert calls, latest_version never
\* decreases; once every call has returned it is the highest version that was applied;
\* and a write with a lower version never overwrites the result of a write with a higher
\* version
C28_VersionNeverDecreases ==
  [][/\ version' >= version
     /\ (AllReturned' => version' = maxAccepted')
     /\ \A t \in Threads :
          (rw_pc[t] = "write" /\ <<storage, version>>' # <<storage, version>>)
            => rw_call[t].version.val >= version]_vars

\* C29: while a thread holds the write lock no reader is inside the read lock and no
\* other thread holds the write lock; the readers inside are as many as the lock counts
C29_ReaderWriterExclusion ==
  /\ Cardinality(Writing) <= 1
  /\ (Writing # {} => Reading = {})
  /\ (Writing # {} => readers = 0 /\ read_ready \in Writing)
  /\ readers = Cardinality(Reading)

\* a writer inside the write lock after two readers were inside the read lock together,
\* a second writer being kept out
C29_Witness ==
  /\ \E t \in Threads : rw_pc[t] = "write"
  /\ \E t \in Threads : rw_pc[t] \in {"write_lock", "woken"}
  /\ readers_seen >= 2

(***************************************************************************)
(* Properties of the streaming thread: failures and closes.                *)
(***************************************************************************)
\* the last message was not JSON and nothing has been received since
AfterMalformed == last_msg.kind = "malformed"

\* _on_close has run after the close
CloseHandled == s_pc \notin {"run_forever", "on_close_state"}

\* C31 (as stated): after a message that is not valid JSON the socket is closed by this
\* side, the state becomes OFF with DATA_INVALID_ERROR, the loop ends without a new
\* connection and ready is set
C31_MalformedMessageIsFatal ==
  AfterMalformed =>
    /\ wsapp # "open" /\ s_pc # "init"
    /\ (s_pc = "run_forever" => wsapp = "closing" /\ close_code = WS_GOING_AWAY_CLOSE)
    /\ (CloseHandled => /\ ~running
                        /\ current_state.state_type = "OFF"
                        /\ current_state.error_track = DATA_INVALID_ERROR)
    /\ (s_pc = "exited" => ready)

\* C31 (amended): as above, the error of the OFF state being DATA_INVALID_ERROR unless
\* stop() has been called: the close of stop() replaces the state recorded for the
\* message by an OFF state without error
C31_MalformedMessageIsFatalUnlessStopped ==
  AfterMalformed =>
    /\ wsapp # "open" /\ s_pc # "init"
    /\ (s_pc = "run_forever" => wsapp = "closing" /\ close_code = WS_GOING_AWAY_CLOSE)
    /\ (CloseHandled => /\ ~running
                        /\ current_state.state_type = "OFF"
                        /\ (~force_close =>
                              current_state.error_track = DATA_INVALID_ERROR))
    /\ (s_pc = "exited" => ready)

\* the first message of the first connection is not JSON: the thread has ended, the
\* state went from INITIALIZING to OFF
C31_Witness ==
  /\ AfterMalformed /\ s_pc = "exited" /\ ready /\ ~force_close
  /\ ~everOK /\ ready_sets = 0
  /\ current_state.state_type = "OFF" /\ current_state.error_track = DATA_INVALID_ERROR

\* what update_state(state) makes of the current state
Applied(state) ==
  IF state = NoState
    THEN current_state' = current_state
    ELSE /\ current_state'.state_type =
              EffectiveType(current_state.state_type, state.state_type)
         /\ (state.error_track # NoError => current_state'.error_track = state.error_track)

\* the close comes from the server: this side has not called close() and no error has
\* ended the connection
ClosedByServer == ~self_closed.is_self_close /\ ~closed_by_error

\* C32: a close by the server with code 4003 sets the state OFF with REQUEST_INVALID_ERROR
\* and ends the reconnections; a close by the server with another code requests
\* INTERRUPTED with UNKNOWN_CLOSE_CODE and keeps the thread reconnecting; a close made by
\* this side applies the state and the is_reconn of one and the same record of
\* __self_closed; and a thread that is not to reconnect opens no connection
C32_CloseHandling ==
  [][/\ \A code \in ServerCloseCodes :
          (ClosedByServer /\ StreamingOnClose(TRUE, code)) =>
             IF code = WS_INVALID_REQUEST_CLOSE
               THEN /\ ~running'
                    /\ current_state'.state_type = "OFF"
                    /\ current_state'.error_track = REQUEST_INVALID_ERROR
               ELSE /\ running'
                    /\ Applied(State("INTERRUPTED", now, UNKNOWN_CLOSE_CODE))
     /\ \A by_server \in BOOLEAN, code \in ServerCloseCodes :
          (self_closed.is_self_close /\ StreamingOnClose(by_server, code)) =>
             running' = self_closed.is_reconn
     /\ StreamingOnCloseState =>
          (running = self_closed.is_reconn /\ Applied(self_closed.state))
     /\ ~running => s_pc' # "init"]_vars

\* the last callback of run_forever was _on_error
AfterError == last_msg.kind = "error"

\* _on_close runs: one of its two steps
OnCloseStep == s_pc \in {"run_forever", "on_close_state"} /\ s_pc' \notin {s_pc, "exited"}

\* what _on_error does with each class of error
ErrorTransition(error) ==
  IF error = "WebSocketException"
    THEN /\ Applied(State("INTERRUPTED", now, WEBSOCKET_ERROR))
         /\ running' /\ wsapp' = wsapp
    ELSE IF error = "ConnectionError"
           THEN /\ Applied(State("INTERRUPTED", now, NETWORK_ERROR))
                /\ running' /\ wsapp' = wsapp
           ELSE IF error = "SystemExit"
                  THEN /\ current_state'.state_type = "OFF"
                       /\ current_state'.error_track = SYSTEM_QUIT
                       /\ ~running' /\ wsapp' = wsapp
                  ELSE /\ wsapp' = "closing" /\ close_code' = WS_GOING_AWAY_CLOSE
                       /\ current_state' = current_state

\* what the close that follows the error does: after an error of another class it
\* requests INTERRUPTED with RUNTIME_ERROR and keeps the thread reconnecting, after the
\* three classes _on_error has dealt with it changes nothing
CloseAfterError ==
  IF last_msg.outcome = "Exception"
    THEN /\ running'
         /\ IF s_pc = "on_close_state"
              THEN Applied(State("INTERRUPTED", now, RUNTIME_ERROR))
              ELSE current_state' = current_state
    ELSE /\ s_pc' = "after_run"
         /\ UNCHANGED <<current_state, running>>

\* C33 (as stated): every failure passed to _on_error makes the transition of its class,
\* and the close that follows does not replace the state chosen for the error
C33_FailureMapping ==
  [][/\ \A error \in WsErrors : StreamingOnError(error) => ErrorTransition(error)
     /\ (AfterError /\ OnCloseStep) => CloseAfterError
     /\ ~running => s_pc' # "init"]_vars

\* C33 (amended): the same, the close that follows being the one of the error as long
\* as stop() has not been called
C33_FailureMappingUnlessStopped ==
  [][/\ \A error \in WsErrors : StreamingOnError(error) => ErrorTransition(error)
     /\ (AfterError /\ OnCloseStep /\ ~force_close) => CloseAfterError
     /\ ~running => s_pc' # "init"]_vars

\* a network error after the state was OK, and the close that followed: the state is
\* the one of the error and the thread goes on
C33_Witness ==
  /\ AfterError /\ last_msg.outcome = "ConnectionError" /\ s_pc = "after_run"
  /\ ~force_close /\ running /\ closed_by_error
  /\ current_state.state_type = "INTERRUPTED" /\ current_state.error_track = NETWORK_ERROR

(***************************************************************************)
(* Properties of a patch: the upsert calls of _on_process_data            *)
(***************************************************************************)

\* the entities of the recorded patch, as pairs of category and key
PatchEntities ==
  {p \in Cats \X {"f1", "f2", "s1"} :
     p[2] \in KeysOf(p[1]) /\ patch.all_data[p[1]][p[2]] # NoItem}

\* the positions of the upsert calls made for the entity p
UpsertCallsFor(p) ==
  {i \in DOMAIN patch.calls : patch.calls[i].kind = p[1] /\ patch.calls[i].key = p[2]}

\* C34: within one patch the upsert calls of each category are made in ascending
\* timestamp order, and when no upsert fails every entity of the patch is passed to
\* upsert exactly once, with its own timestamp as version
C34_PatchUpsertOrder ==
  patch # NoPatch =>
    /\ \A i, j \in DOMAIN patch.calls :
         (i < j /\ patch.calls[i].kind = patch.calls[j].kind)
           => patch.calls[i].version <= patch.calls[j].version
    /\ patch.op_ok =>
         /\ Len(patch.calls) = Cardinality(PatchEntities)
         /\ \A p \in PatchEntities :
              /\ Cardinality(UpsertCallsFor(p)) = 1
              /\ \A i \in UpsertCallsFor(p) :
                   patch.calls[i].version = patch.all_data[p[1]][p[2]].timestamp

\* a patch processed without a failure whose first flag is the younger one
C34_Witness ==
  /\ patch # NoPatch
  /\ patch.op_ok
  /\ patch.all_data["featureFlags"]["f1"] # NoItem
  /\ patch.all_data["featureFlags"]["f2"] # NoItem
  /\ patch.all_data["featureFlags"]["f1"].timestamp
       > patch.all_data["featureFlags"]["f2"].timestamp
  /\ Len(patch.calls) = 2
  /\ last_msg.outcome = "ok"

\* a patch with a flag and an older segment, processed without a failure
PatchWithOlderSegment ==
  /\ patch # NoPatch
  /\ patch.op_ok
  /\ patch.all_data["featureFlags"]["f1"] # NoItem
  /\ patch.all_data["segments"]["s1"] # NoItem
  /\ patch.all_data["featureFlags"]["f1"].timestamp
       > patch.all_data["segments"]["s1"].timestamp

(***************************************************************************)
(* Properties of the flush workers: the permits of the dispatcher         *)
(***************************************************************************)

\* C35: at most MAX_FLUSH_WORKERS_NUMBER runners are unfinished and the free permits
\* plus the unfinished runners are always MAX_FLUSH_WORKERS_NUMBER; a step that
\* submits a runner takes one permit, a step in which a runner finishes, its request
\* failed or not, releases one, and no other step touches the permits
C35_PermitAccounting ==
  /\ [](/\ permits \in 0..MAX_FLUSH_WORKERS_NUMBER
        /\ Cardinality(runners) <= MAX_FLUSH_WORKERS_NUMBER
        /\ permits + Cardinality(runners) = MAX_FLUSH_WORKERS_NUMBER)
  /\ [][\/ /\ runners' = runners
           /\ permits' = permits
        \/ /\ \E payload \in runners' \ runners : runners' = runners \cup {payload}
           /\ permits' = permits - 1
           /\ posted' = posted
        \/ /\ \E payload \in runners : runners' = runners \ {payload}
           /\ permits' = permits + 1
           /\ Len(posted') > Len(posted)]_vars

\* every worker is busy, the permits are used up, and one of these workers has the
\* slot of a runner whose request the sender had failed
C35_Witness ==
  /\ permits = 0
  /\ Cardinality(runners) = MAX_FLUSH_WORKERS_NUMBER
  /\ Len(posted) = 1
  /\ ~posted[1].ok

(***************************************************************************)
(* Properties of the status provider: several waiters                     *)
(***************************************************************************)

\* the thread w is in wait_for_OKState without a timeout and has not returned
Blocked(w) ==
  /\ waiter[w].pc \in {"check", "waiting"}
  /\ EffectiveTimeout(waiter[w].timeout) = 0

\* the thread w has returned r from wait_for_OKState
ReturnedWith(w, r) == waiter[w].pc = "done" /\ waiter[w].result = r

\* C36: every real transition wakes all waiters: a step that changes the state leaves
\* no thread in wait(); a thread in wait_for_OKState without a timeout returns true
\* if the state is OK and stays so, false if it is OFF and stays so, and returns only
\* in one of these two states
C36_NoLostWakeUp ==
  /\ [][current_state' # current_state => \A w \in Waiters : waiter'[w].pc # "waiting"]_vars
  /\ \A w \in Waiters :
       /\ (Blocked(w) /\ current_state.state_type = "OK")
            ~> (ReturnedWith(w, TRUE) \/ current_state.state_type # "OK")
       /\ (Blocked(w) /\ current_state.state_type = "OFF")
            ~> (ReturnedWith(w, FALSE) \/ current_state.state_type # "OFF")
  /\ [][\A w \in Waiters :
          (Blocked(w) /\ waiter'[w].pc = "done")
            => /\ current_state.state_type \in {"OK", "OFF"}
               /\ waiter'[w].result = (current_state.state_type = "OK")]_vars

\* two threads that were blocked in wait() have been woken by the same transition to
\* OK and have both returned true
C36_Witness ==
  /\ \A w \in Waiters : ReturnedWith(w, TRUE) /\ waiter[w].woken
  /\ current_state.state_type = "OK"

\* two threads that were blocked in wait() have been woken and have returned false
BothWokenByOFF ==
  /\ \A w \in Waiters : ReturnedWith(w, FALSE) /\ waiter[w].woken
  /\ current_state.state_type = "OFF"

(***************************************************************************)
(* Properties of the status provider: state_since                         *)
(***************************************************************************)

\* update_state(new_state) asks for the state type the provider is in already
SameType(new_state) ==
  EffectiveType(current_state.state_type, new_state.state_type) = current_state.state_type

\* C37: state_since changes only when the state type changes: an update_state whose
\* effective state type is the current one keeps type and state_since, replaces the
\* error track alone if the new state carries an error, and otherwise changes nothing
\* and wakes no waiter
C37_StateSinceFollowsType ==
  /\ [][current_state'.state_since # current_state.state_since
          => current_state'.state_type # current_state.state_type]_vars
  /\ [][\A s \in NewStates(now) :
          (UpdateState(s) /\ SameType(s)) =>
            /\ current_state'.state_type = current_state.state_type
            /\ current_state'.state_since = current_state.state_since
            /\ IF s.error_track # NoError
                 THEN current_state'.error_track = s.error_track
                 ELSE current_state' = current_state /\ waiter' = waiter]_vars

\* a thread that called wait_for_OKState after the state had taken its type has been
\* woken: an update of the same type has replaced the error, and state_since is of
\* before the call
C37_Witness ==
  /\ waiter["w1"].pc \in {"check", "waiting", "done"}
  /\ waiter["w1"].woken
  /\ current_state.state_since < waiter["w1"].called
  /\ current_state.error_track # NoError

(***************************************************************************)
(* Properties of the reconnection delays                                   *)
(***************************************************************************)

\* min(d0 * 2^n, 60 s) in quarter seconds; d0 is a quarter second at least, so that
\* from n = 8 on the product is above the cap
CappedBackoff(n) ==
  IF n >= 8 THEN MAX_DELAY ELSE Min(strategy.first_delay * 2^n, MAX_DELAY)

\* the last successful open was more than 60 s before the retry
OpenedLongAgo == delay.opened_at > 0 /\ delay.at - delay.opened_at > RESET_INTERVAL

\* set_good_run() was called more than 60 s before the retry
GoodRunLongAgo == delay.good_run > 0 /\ delay.at - delay.good_run > RESET_INTERVAL

\* C38: every retry gets a delay; the retry numbered n uses backoff = min(d0 * 2^n, 60 s)
\* and a delay in [backoff / 2, backoff]; n grows by one per retry and is reset to 0
\* exactly when the last successful open was more than 60 s before the retry
C38_BackoffSchedule ==
  delay # NoDelay =>
    /\ ~delay.raised
    /\ delay.n = (IF OpenedLongAgo THEN 0 ELSE delay.before)
    /\ strategy.retry_times = delay.n + 1
    /\ delay.backoff = CappedBackoff(delay.n)
    /\ 2 * delay.delay >= delay.backoff
    /\ delay.delay <= delay.backoff

\* what holds of next_delay: the retry count starts again exactly when set_good_run()
\* was called more than 60 s before, and a call that returns has used the capped
\* backoff of its n, a delay within its bounds, and has counted the retry
NextDelayAsCoded ==
  delay # NoDelay =>
    /\ delay.n = (IF GoodRunLongAgo THEN 0 ELSE delay.before)
    /\ delay.raised = (delay.n >= FLOAT_OVERFLOW)
    /\ ~delay.raised =>
         /\ strategy.retry_times = delay.n + 1
         /\ delay.backoff = CappedBackoff(delay.n)
         /\ 2 * delay.delay >= delay.backoff
         /\ delay.delay <= delay.backoff

\* a connection attempt that never opened has set the retry count back
ResetWithoutOpen ==
  /\ delay # NoDelay
  /\ delay.opened_at = 0
  /\ delay.before > 0
  /\ delay.n = 0

\* a connection that opened less than 60 s before the retry has set the retry count back
ResetAfterShortConnection ==
  /\ delay # NoDelay
  /\ delay.opened_at > 0
  /\ delay.at - delay.opened_at <= RESET_INTERVAL
  /\ delay.before > 0
  /\ delay.n = 0

\* next_delay has raised OverflowError
NextDelayRaised == delay # NoDelay /\ delay.raised

(***************************************************************************)
(* Properties of the dispatcher: what the payloads hold                    *)
(***************************************************************************)

\* the payloads of the runners at work and the requests of the runners that have run
RunnerPayloads == runners \cup {posted[i].events : i \in 1..Len(posted)}

\* the number of runners that have been given the event e
RunnersOf(e) ==
  Cardinality({payload \in runners : e \in Range(payload)})
    + Cardinality({i \in 1..Len(posted) : e \in Range(posted[i].events)})

\* the events of q are in the order in which they were enqueued, each once
InEnqueueOrder(q) == \A i, j \in 1..Len(q) : i < j => q[i].id < q[j].id

\* C39: the dispatcher neither duplicates nor reorders events: an event that was put
\* into the inbox is in the payload of at most one runner and never in the buffer as
\* well, buffer and payloads are in the order of the enqueueing, and they hold only
\* events that were enqueued and whose is_send_event is true
C39_NoDuplicateNoReorder ==
  /\ \A e \in sent_events :
       /\ RunnersOf(e) <= 1
       /\ e \in Range(buffer) => RunnersOf(e) = 0
  /\ \A q \in RunnerPayloads \cup {buffer} :
       /\ InEnqueueOrder(q)
       /\ \A e \in Range(q) : e \in sent_events /\ e.is_send_event

\* the dispatcher has taken an event whose is_send_event is false and a later event
\* whose is_send_event is true, and the sender has got the second one alone
C39_Witness ==
  /\ \E e \in sent_events : e.id = 1 /\ ~e.is_send_event
  /\ inbox = <<>> /\ msgs = <<>> /\ buffer = <<>> /\ runners = {}
  /\ Len(posted) = 1
  /\ Len(posted[1].events) = 1
  /\ posted[1].events[1].id = 2

\* the sender has got two events in one request, in the order of their enqueueing
TwoEventsInOneRequest ==
  \E i \in 1..Len(posted) : Len(posted[i].events) = 2

\* the sender has got two events in two requests
TwoEventsInTwoRequests ==
  /\ Len(posted) = 2
  /\ posted[1].events # <<>> /\ posted[2].events # <<>>

(***************************************************************************)
(* Properties of the streaming thread: initialized                         *)
(***************************************************************************)

\* the full data-sync messages without entities: _data_to_dict gives version 0
EmptyFullMessages ==
  {msg \in Messages : /\ msg.kind = "data-sync" /\ msg.complete
                      /\ msg.eventType = "full"
                      /\ DataVersion(msg) = 0}

\* C40: the update processor reports initialized exactly when ready is set and the
\* store has applied an init or upsert; the exit of the worker loop sets ready and
\* leaves the store as it is; a full message without entities, processed without
\* failure, sets ready and the state OK and leaves the store as it is
C40_InitializedNeedsData ==
  /\ [](StreamingInitialized <=> (ready /\ everApplied))
  /\ [][s_pc' = "exited" /\ s_pc # "exited"
          => ready' /\ UNCHANGED <<storage, version, initialized, everApplied>>]_vars
  /\ [][\A msg \in EmptyFullMessages :
          OnMessage(msg, 0)
            => /\ ready' /\ current_state'.state_type = "OK"
               /\ UNCHANGED <<storage, version, initialized, everApplied>>]_vars

\* a full message without entities has been processed on a store that has no data: the
\* state is OK and ready is set, and the update processor is not initialized
C40_Witness ==
  /\ last_msg = [kind |-> "data-sync", outcome |-> "ok"]
  /\ ready /\ ready_sets = 1
  /\ current_state.state_type = "OK"
  /\ ~everApplied
  /\ ~StreamingInitialized

\* the worker loop has ended after a message that is not JSON, before any data: ready
\* is set and the update processor is not initialized
FatalExitNotInitialized ==
  /\ s_pc = "exited"
  /\ ready /\ ready_sets = 0
  /\ current_state.state_type = "OFF"
  /\ current_state.error_track = DATA_INVALID_ERROR
  /\ ~StreamingInitialized

\* ready is set, data has been applied, and the update processor is initialized
InitializedWithData == StreamingInitialized /\ everApplied /\ version > 0

=============================================================================
